---- MODULE Spec2Model ----
(***************************************************************************)
(* Verification model of data-parser-app (package data_parser_core).       *)
(*                                                                         *)
(*   Spec          run_parser, the orchestration loop of parser.py         *)
(*   SpecPool      the worker pool / work queue of the design document     *)
(*   SpecDecode    async_bytes_to_text_stream of async_utils.py            *)
(*   SpecCsvStream CsvResourceParser.parse_stream of csv_parser.py         *)
(*   SpecJsonl     JSONLStream of jsonl_stream.py                          *)
(*   SpecParse     CsvResourceParser.parse of csv_parser.py and            *)
(*                 FixedWidthResourceParser.parse of fixed_width_parser.py *)
(*   SpecFixedWidth  FixedWidthResourceParser.parse, every configuration   *)
(*   SpecCsvBoth   parse and parse_stream of one CsvResourceParser on one   *)
(*                 input                                                   *)
(*   SpecFactory   the parser factories of parser_factories.py             *)
(*   SpecDateFilter  DateFilterStrategy of filter_factories.py             *)
(*                                                                         *)
(* Text is a sequence of one-character strings, bytes are integers, and    *)
(* decoded text is a sequence of code points.                              *)
(***************************************************************************)
EXTENDS Integers, Sequences, FiniteSets, TLC

VARIABLES
    \* ---- run_parser (parser.py) ----
    pc,                  \* position of run_parser
    resource_parsers,    \* parser_config.resource_parsers, in insertion order
    resources,           \* local `resources`
    idx,                 \* 1-based position of the for loop over resources
    processed_resources, \* local `processed_resources`
    created,             \* calls of registry.create: [name, pattern, parser_type]
    uploaded,            \* output names given to output_bus.add_bundle_resource
    complete_calls,      \* processed_resources payload of each complete_bundle call
    failed,              \* resources whose iteration ended in the except branch
    skipped,             \* resources that hit the NO_PARSER_FOUND branch
    temp_files,          \* files /tmp/<resource_name> that exist
    \* ---- async_bytes_to_text_stream (async_utils.py) ----
    dec_pc,              \* "idle", "reading" (inside async for), "done"
    chunk_list,          \* the chunks the byte stream has produced so far
    buffer,              \* local `buffer`
    yielded,             \* the lines yielded so far
    \* ---- CsvResourceParser.parse_stream (csv_parser.py) ----
    ps_pc,               \* "idle", "start", "rows", "final", "done", "raised"
    ps_cfg,              \* the constructor configuration of the strategy instance
    ps_lines,            \* the text lines async_input_stream yields
    ps_fieldnames,       \* reader.fieldnames
    ps_reader,           \* rows the DictReader has not returned yet
    ps_records_written,  \* local `records_written`
    jsonl_records,       \* records given to jsonl_stream.write_record, in order
    progress,            \* the values parse_stream has yielded, in order
    \* ---- worker pool / work queue (design document, section 4.5) ----
    pool_pc,             \* "idle", "draining", "joined", "completed", "failed"
    njobs,               \* N, the number of jobs enqueued (one per resource)
    work_queue,          \* jobs waiting in the FIFO queue
    worker,              \* per worker: "idle", "working", "stopped", "failed"
    worker_job,          \* per worker: the job it holds, 0 when none
    taken,               \* per job: how many times it was dequeued
    done_calls,          \* per job: how many times it was marked done
    unfinished_tasks,    \* the queue's count of items put and not yet marked done
    \* ---- JSONLStream (jsonl_stream.py) ----
    js_pc,               \* "idle", "open" (constructed)
    output_stream,       \* the text written to self.output_stream
    records_written,     \* self.records_written
    js_passed,           \* how many records the callers have passed in so far
    js_calls,            \* how many write_record / write_records calls were made
    \* ---- CsvResourceParser.parse (csv_parser.py) ----
    cp_pc,               \* "idle", "start", "rows", "returned", "raised"
    cp_self,             \* the fields of the strategy instance (self)
    csvfile,             \* the rows csv.reader makes of the file
    cp_reader,           \* rows the reader has not returned yet
    renamed_headers,     \* local `renamed_headers`
    include_indices,     \* local `include_indices` (1-based)
    row_num,             \* enumerate index of the next row (0-based)
    cp_records_written,  \* local `records_written`
    write_stream,        \* the records written to write_stream, in order
    source_lines,        \* per written record: the 1-based file line of its row
    dropped,             \* file lines of the rows the row-level except skipped
    coerce_calls,        \* the values passed to self._coerce_value
    cp_return,           \* the value parse returned, NoReturn before it returns
    cp_call,             \* 1 in the first parse call of the instance, 2 in the second
    first_call,          \* outcome of the first call, NONE while it is running
    \* ---- FixedWidthResourceParser.parse (fixed_width_parser.py) ----
    fw_pc,               \* "idle", "start", "rows", "returned", "raised"
    parser_kv_args,      \* the configuration passed to parse
    lines,               \* file.readlines()
    fw_window,           \* lines of lines[start_line:end_line] not yet processed
    line_num,            \* line_num of the next line of the window
    fw_records_written,  \* local `records_written`
    fw_write_stream,     \* the records written to write_stream, in order
    fw_source_lines,     \* per written record: the 1-based file line of its row
    fw_dropped,          \* file lines the row-level except skipped
    fw_return,           \* the value parse returned, NoReturn before it returns
    fw_call,             \* 1 in the first parse call, 2 in the second
    fw_first_call,       \* outcome of the first call, NONE while it is running
    \* ---- parser factories (parser_factories.py) ----
    fa_pc,               \* position of the validate / create sequence
    fa_name,             \* the registered strategy name
    fa_params,           \* params: option name -> type of the value given
    fa_is_dataclass,     \* params is a processed config object, not a dict
    fa_instance,         \* what create returned, NoInstance before and when it raises
    \* ---- DateFilterStrategy (filter_factories.py) ----
    df_pc,               \* position of the construct / filter sequence
    df_self,             \* the attributes __init__ sets
    df_data,             \* the record given to filter
    df_result            \* what filter returned, NONE before

run_vars == <<pc, resource_parsers, resources, idx, processed_resources,
              created, uploaded, complete_calls, failed, skipped, temp_files>>

dec_vars == <<dec_pc, chunk_list, buffer, yielded>>

ps_vars == <<ps_pc, ps_cfg, ps_lines, ps_fieldnames, ps_reader,
             ps_records_written, jsonl_records, progress>>

pool_vars == <<pool_pc, njobs, work_queue, worker, worker_job, taken, done_calls,
               unfinished_tasks>>

js_vars == <<js_pc, output_stream, records_written, js_passed, js_calls>>

cp_vars == <<cp_pc, cp_self, csvfile, cp_reader, renamed_headers, include_indices,
             row_num, cp_records_written, write_stream, source_lines, dropped,
             coerce_calls, cp_return, cp_call, first_call>>

fw_vars == <<fw_pc, parser_kv_args, lines, fw_window, line_num, fw_records_written,
             fw_write_stream, fw_source_lines, fw_dropped, fw_return, fw_call,
             fw_first_call>>

fa_vars == <<fa_pc, fa_name, fa_params, fa_is_dataclass, fa_instance>>

df_vars == <<df_pc, df_self, df_data, df_result>>

vars == <<run_vars, dec_vars, ps_vars, pool_vars, js_vars, cp_vars, fw_vars,
          fa_vars, df_vars>>

(***************************************************************************)
(* Bounds                                                                  *)
(***************************************************************************)
MaxResources == 2
MaxPatterns == 2

\* Small helpers
Range(s) == {s[i] : i \in 1..Len(s)}

RECURSIVE SeqsUpTo(_, _)
\* All sequences of length <= n over the set S
SeqsUpTo(S, n) ==
    IF n = 0 THEN {<<>>}
    ELSE LET shorter == SeqsUpTo(S, n - 1)
         IN shorter \cup {Append(s, x) : s \in {t \in shorter : Len(t) = n - 1},
                                         x \in S}

DistinctSeqsUpTo(S, n) ==
    {s \in SeqsUpTo(S, n) : \A i, j \in 1..Len(s) : i # j => s[i] # s[j]}

(***************************************************************************)
(* Inputs of run_parser                                                    *)
(***************************************************************************)
\* Resource names a bundle may list
ResourceNamePool == {<<"a">>, <<"b">>, <<"a", "b">>, <<"b", "a">>}

\* Entries of parser_config.resource_parsers: regular expression (a literal
\* character or "." per position) and the single strategy name of its dict
ParserEntryPool ==
    { [pattern |-> <<".">>,      parser_type |-> "csv"],
      [pattern |-> <<"a">>,      parser_type |-> "fixed_width"],
      [pattern |-> <<"a", "b">>, parser_type |-> "csv"],
      [pattern |-> <<"b", ".">>, parser_type |-> "fixed_width"] }

ResourceLists == DistinctSeqsUpTo(ResourceNamePool, MaxResources)

ParserConfigs ==
    {c \in SeqsUpTo(ParserEntryPool, MaxPatterns) :
        \A i, j \in 1..Len(c) : i # j => c[i].pattern # c[j].pattern}

\* re.match(pattern, resource_name): the pattern is anchored at the start of
\* the name and may match a proper prefix of it
ReMatch(pattern, name) ==
    /\ Len(pattern) <= Len(name)
    /\ \A i \in 1..Len(pattern) : pattern[i] = "." \/ pattern[i] = name[i]

\* The loop over resource_parsers.items() keeps going instead of stopping
LastMatchFrom(parsers, name, k) ==
    LET m == {i \in k..Len(parsers) : ReMatch(parsers[i].pattern, name)}
    IN IF m = {} THEN 0 ELSE CHOOSE i \in m : \A j \in m : j <= i

RECURSIVE FirstMatchFrom(_, _, _)
\* for pattern, parser_config_dict in resource_parsers.items(): if re.match: ... break
\* 0 stands for "parser_strategy is None"
FirstMatchFrom(parsers, name, k) ==
    IF k > Len(parsers) THEN 0
    ELSE IF ReMatch(parsers[k].pattern, name) THEN k
    ELSE FirstMatchFrom(parsers, name, k + 1)

\* f"{resource_name}.jsonl"
OutputFilename(name) == name \o <<".jsonl">>

\* f"/tmp/{resource_name}"
TempFilename(name) == <<"/tmp/">> \o name

\* Where an iteration of the loop can raise: the calls it makes on the registry,
\* the input bus, the file system, the strategy and the output bus. The
\* strategy is whatever object the registry of oc_pipeline_bus returns, used
\* through the ResourceParserStrategy interface: its parse(temp_filename,
\* output_buffer, parser_kv_args) returns a count or raises. (Of the two
\* strategies this repository registers, CsvResourceParser.parse takes two
\* arguments and raises TypeError on this three-argument call, and
\* FixedWidthResourceParser cannot be instantiated; both are the outcomes
\* "parse" and "create" here.)
FailPoints == {"none", "create", "read", "temp", "parse", "upload"}

(***************************************************************************)
(* run_parser                                                              *)
(***************************************************************************)
InitRun ==
    /\ pc = "find_bundle"
    /\ resource_parsers \in ParserConfigs
    /\ resources = <<>>
    /\ idx = 0
    /\ processed_resources = <<>>
    /\ created = <<>>
    /\ uploaded = <<>>
    /\ complete_calls = <<>>
    /\ failed = {}
    /\ skipped = {}
    /\ temp_files = {}

\* get_bundle_metadata_json; on failure input_bus.bundle_found creates a mock
\* bundle, and a failure of that call reaches the outer except and is re-raised
FindBundle ==
    /\ pc = "find_bundle"
    /\ \E outcome \in {"found", "mock_created", "mock_failed"} :
          pc' = IF outcome = "mock_failed" THEN "raised" ELSE "list_resources"
    /\ UNCHANGED <<resource_parsers, resources, idx, processed_resources, created,
                   uploaded, complete_calls, failed, skipped, temp_files>>

\* get_bundle_resource_list (an exception gives resources = []); an empty list
\* logs NO_RESOURCES_TO_PROCESS and returns
ListResources ==
    /\ pc = "list_resources"
    /\ \E listed \in ResourceLists, ok \in BOOLEAN :
          /\ resources' = IF ok THEN listed ELSE <<>>
          /\ pc' = IF resources' = <<>> THEN "done" ELSE "create_output"
    /\ UNCHANGED <<resource_parsers, idx, processed_resources, created,
                   uploaded, complete_calls, failed, skipped, temp_files>>

\* output_bus.bundle_found for the parsed stage
CreateOutputBundle ==
    /\ pc = "create_output"
    /\ \E ok \in BOOLEAN :
          /\ pc' = IF ok THEN "loop" ELSE "raised"
          /\ idx' = IF ok THEN 1 ELSE idx
    /\ UNCHANGED <<resource_parsers, resources, processed_resources, created,
                   uploaded, complete_calls, failed, skipped, temp_files>>

\* One iteration of `for resource_name in resources`, the try body and its
\* except branch included
ProcessResource ==
    /\ pc = "loop"
    /\ idx <= Len(resources)
    /\ LET resource_name == resources[idx]
           k == FirstMatchFrom(resource_parsers, resource_name, 1)
       IN \E fail \in FailPoints :
            /\ idx' = idx + 1
            /\ pc' = "loop"
            /\ IF k = 0
               THEN \* NO_PARSER_FOUND: continue
                    /\ skipped' = skipped \cup {resource_name}
                    /\ UNCHANGED <<created, uploaded, processed_resources,
                                   failed, temp_files>>
               ELSE /\ created' = Append(created,
                                    [name |-> resource_name,
                                     pattern |-> k,
                                     parser_type |-> resource_parsers[k].parser_type])
                    /\ failed' = IF fail = "none" THEN failed
                                 ELSE failed \cup {resource_name}
                    \* the temp file is written before parse and unlinked after it
                    /\ temp_files' = IF fail = "parse"
                                     THEN temp_files \cup {TempFilename(resource_name)}
                                     ELSE temp_files
                    /\ uploaded' = IF fail = "none"
                                   THEN Append(uploaded, OutputFilename(resource_name))
                                   ELSE uploaded
                    /\ processed_resources' =
                           IF fail = "none"
                           THEN Append(processed_resources, OutputFilename(resource_name))
                           ELSE processed_resources
                    /\ UNCHANGED skipped
    /\ UNCHANGED <<resource_parsers, resources, complete_calls>>

\* complete_bundle as soon as something was processed, inside the loop
CompleteBundleInLoop ==
    /\ pc = "loop"
    /\ IF processed_resources # <<>>
       THEN \E ok \in BOOLEAN :
               /\ complete_calls' = Append(complete_calls, processed_resources)
               /\ pc' = IF ok THEN "done" ELSE "raised"
       ELSE /\ idx > Len(resources)
            /\ pc' = "done"
            /\ UNCHANGED complete_calls
    /\ UNCHANGED <<resource_parsers, resources, idx, processed_resources, created,
                   uploaded, failed, skipped, temp_files>>

\* After the loop: complete_bundle when something was processed, otherwise
\* NO_RESOURCES_PROCESSED; an exception of complete_bundle is re-raised
CompleteBundle ==
    /\ pc = "loop"
    /\ idx > Len(resources)
    /\ IF processed_resources # <<>>
       THEN \E ok \in BOOLEAN :
               /\ complete_calls' = Append(complete_calls, processed_resources)
               /\ pc' = IF ok THEN "done" ELSE "raised"
       ELSE /\ pc' = "done"
            /\ UNCHANGED complete_calls
    /\ UNCHANGED <<resource_parsers, resources, idx, processed_resources, created,
                   uploaded, failed, skipped, temp_files>>

NextRun ==
    \/ FindBundle
    \/ ListResources
    \/ CreateOutputBundle
    \/ ProcessResource
    \/ CompleteBundle

IdleRun ==
    /\ pc = "idle"
    /\ resource_parsers = <<>>
    /\ resources = <<>>
    /\ idx = 0
    /\ processed_resources = <<>>
    /\ created = <<>>
    /\ uploaded = <<>>
    /\ complete_calls = <<>>
    /\ failed = {}
    /\ skipped = {}
    /\ temp_files = {}

(***************************************************************************)
(* async_bytes_to_text_stream                                              *)
(***************************************************************************)
MaxChunks == 2
MaxChunkLen == 2

NEWLINE == 10
REPLACEMENT == 65533

\* The bytes of the modelled streams: "\n", "a", the lead byte 0xC3 of a
\* two-byte character and the continuation byte 0xA9 (0xC3 0xA9 is U+00E9)
StreamBytes == {NEWLINE, 97, 195, 169}

Chunks == SeqsUpTo(StreamBytes, MaxChunkLen)

IsAscii(b) == b < 128
IsLead2(b) == b \in 194..223
IsCont(b) == b \in 128..191

Tail2(bs) == SubSeq(bs, 3, Len(bs))

RECURSIVE Utf8Valid(_)
\* Whether bytes.decode("utf-8") succeeds, for one- and two-byte forms
Utf8Valid(bs) ==
    IF bs = <<>> THEN TRUE
    ELSE IF IsAscii(bs[1]) THEN Utf8Valid(Tail(bs))
    ELSE IF IsLead2(bs[1]) /\ Len(bs) >= 2 /\ IsCont(bs[2]) THEN Utf8Valid(Tail2(bs))
    ELSE FALSE

RECURSIVE DecodeStrict(_)
\* bytes.decode("utf-8") of a valid sequence: its code points
DecodeStrict(bs) ==
    IF bs = <<>> THEN <<>>
    ELSE IF IsAscii(bs[1]) THEN <<bs[1]>> \o DecodeStrict(Tail(bs))
    ELSE <<(bs[1] - 192) * 64 + (bs[2] - 128)>> \o DecodeStrict(Tail2(bs))

RECURSIVE DecodeReplace(_)
\* bytes.decode("utf-8", errors="replace"): U+FFFD for every byte that does not
\* start a well-formed character
DecodeReplace(bs) ==
    IF bs = <<>> THEN <<>>
    ELSE IF IsAscii(bs[1]) THEN <<bs[1]>> \o DecodeReplace(Tail(bs))
    ELSE IF IsLead2(bs[1]) /\ Len(bs) >= 2 /\ IsCont(bs[2])
         THEN <<(bs[1] - 192) * 64 + (bs[2] - 128)>> \o DecodeReplace(Tail2(bs))
    ELSE <<REPLACEMENT>> \o DecodeReplace(Tail(bs))

\* A decoder that gives up on the first UnicodeDecodeError: the line is lost
DecodeLineNoFallback(line) ==
    IF Utf8Valid(line) THEN DecodeStrict(line) ELSE <<>>

\* try: line.decode(encoding) except UnicodeDecodeError: line.decode(encoding, errors='replace')
DecodeLine(line) ==
    IF Utf8Valid(line) THEN DecodeStrict(line) ELSE DecodeReplace(line)

\* Position of the first b'\n' of buf, 0 when there is none
FirstNewline(buf) ==
    LET nl == {i \in 1..Len(buf) : buf[i] = NEWLINE}
    IN IF nl = {} THEN 0 ELSE CHOOSE i \in nl : \A j \in nl : i <= j

RECURSIVE ExtractLines(_)
\* while b'\n' in buffer: line, buffer = buffer.split(b'\n', 1); yield decoded line
ExtractLines(buf) ==
    LET n == FirstNewline(buf)
    IN IF n = 0 THEN [lines |-> <<>>, rest |-> buf]
       ELSE LET more == ExtractLines(SubSeq(buf, n + 1, Len(buf)))
            IN [lines |-> <<DecodeLine(SubSeq(buf, 1, n - 1))>> \o more.lines,
                rest |-> more.rest]

\* The remaining data is yielded whether or not there is any
ResidualAlways(buf) == <<DecodeLine(buf)>>

\* if buffer: yield the decoded remaining data
Residual(buf) ==
    IF buf # <<>> THEN <<DecodeLine(buf)>> ELSE <<>>

IdleDecode ==
    /\ dec_pc = "idle"
    /\ chunk_list = <<>>
    /\ buffer = <<>>
    /\ yielded = <<>>

InitDecode ==
    /\ dec_pc = "reading"
    /\ chunk_list = <<>>
    /\ buffer = <<>>
    /\ yielded = <<>>

\* One iteration of `async for chunk in async_bytes_stream`, the inner while included
ReceiveChunk ==
    /\ dec_pc = "reading"
    /\ Len(chunk_list) < MaxChunks
    /\ \E chunk \in Chunks :
          LET ex == ExtractLines(buffer \o chunk)
          IN /\ chunk_list' = Append(chunk_list, chunk)
             /\ buffer' = ex.rest
             /\ yielded' = yielded \o ex.lines
    /\ UNCHANGED dec_pc

\* The byte stream is exhausted: yield any remaining data and finish
EndOfStream ==
    /\ dec_pc = "reading"
    /\ yielded' = yielded \o Residual(buffer)
    /\ dec_pc' = "done"
    /\ UNCHANGED <<chunk_list, buffer>>

NextDecode ==
    \/ ReceiveChunk
    \/ EndOfStream

(***************************************************************************)
(* CsvResourceParser: configuration, row processing, parse_stream          *)
(***************************************************************************)
MaxLines == 3
MaxSkipRows == 1
MaxLimitRows == 1

\* Python's None, as a value comparable with text
NONE == <<"None">>

\* Rows the csv reader makes of the input lines; <<>> is a blank line
LinePool ==
    { <<>>,
      <<<<"n">>>>,
      <<<<"3", "0">>, <<" ", "x">>>> }

\* Explicit `headers` a configuration may carry
HeaderPool == {NONE, <<<<"n">>, <<"a">>>>}

\* null_values = self.null_values or ["", "NULL", "null"]
DefaultNullValues == <<<<>>, <<"N", "U", "L", "L">>, <<"n", "u", "l", "l">>>>

EffectiveNullValues(null_values) ==
    IF null_values = NONE \/ null_values = <<>> THEN DefaultNullValues ELSE null_values

\* limit_rows = None, among the integer values of limit_rows
NoLimit == -1

\* `if limit_rows and ...`: None and 0 are both falsy
Truthy(limit_rows) == limit_rows # NoLimit /\ limit_rows # 0

CsvConfigs ==
    [ has_header : {TRUE},
      headers : HeaderPool,
      include : {NONE},
      rename : {{}},
      coerce : {{}},
      null_values : {NONE},
      trim_whitespace : {TRUE},
      skip_rows : 0..MaxSkipRows,
      limit_rows : {NoLimit} \cup 0..MaxLimitRows,
      on_error : {"skip", "fail"},
      extra_fields_policy : {"keep"},
      schema_version : {NONE} ]

\* Yield progress every 1000 records
batch_size == 1000

\* str.strip()
RECURSIVE LStrip(_)
LStrip(s) == IF s # <<>> /\ s[1] = " " THEN LStrip(Tail(s)) ELSE s

RECURSIVE RStrip(_)
RStrip(s) ==
    IF s # <<>> /\ s[Len(s)] = " " THEN RStrip(SubSeq(s, 1, Len(s) - 1)) ELSE s

Strip(s) == RStrip(LStrip(s))

Digits == {"0", "1", "2", "3", "4", "5", "6", "7", "8", "9"}

RECURSIVE DropLeadingZeros(_)
DropLeadingZeros(s) ==
    IF Len(s) > 1 /\ s[1] = "0" THEN DropLeadingZeros(Tail(s)) ELSE s

\* _coerce_value: int(value) raises ValueError unless the text is a decimal
\* number; "bool" tests membership in ("true", "1", "yes", "on"); every other
\* target type of the modelled configurations returns the value
CoerceValue(value, target_type) ==
    IF target_type = "int"
    THEN IF Strip(value) # <<>> /\ \A i \in 1..Len(Strip(value)) : Strip(value)[i] \in Digits
         THEN [raised |-> FALSE, value |-> <<"int">> \o DropLeadingZeros(Strip(value))]
         ELSE [raised |-> TRUE, value |-> value]
    ELSE IF target_type = "bool"
    THEN [raised |-> FALSE,
          value |-> IF value \in {<<"t", "r", "u", "e">>, <<"1">>, <<"y", "e", "s">>, <<"o", "n">>}
                    THEN <<"bool", "true">> ELSE <<"bool", "false">>]
    ELSE [raised |-> FALSE, value |-> value]

\* dict.get(key, default) on a mapping kept as a set of <<key, value>> pairs
MapGet(map, key, default) ==
    IF \E p \in map : p[1] = key THEN (CHOOSE p \in map : p[1] = key)[2] ELSE default

MapHas(map, key) == \E p \in map : p[1] = key

\* d[key] = value on an insertion-ordered dict kept as a sequence of pairs
DictSet(d, key, value) ==
    IF \E i \in 1..Len(d) : d[i].field = key
    THEN [i \in 1..Len(d) |-> IF d[i].field = key THEN [field |-> key, value |-> value]
                                                   ELSE d[i]]
    ELSE Append(d, [field |-> key, value |-> value])

\* The dict csv.DictReader makes of a row: missing cells are None (restval),
\* surplus cells are collected in a list under the key None (restkey)
RowDict(fieldnames, row) ==
    [i \in 1..Len(fieldnames) |->
        [field |-> fieldnames[i],
         value |-> IF i <= Len(row) THEN row[i] ELSE NONE]]
    \o (IF Len(row) > Len(fieldnames)
        THEN LET rest == <<"list">> \o SubSeq(row, Len(fieldnames) + 1, Len(row))
             IN << [field |-> NONE, value |-> rest] >>
        ELSE <<>>)

IsStr(value) == value # NONE /\ (value = <<>> \/ value[1] # "list")

RECURSIVE ProcessRowFrom(_, _, _, _, _, _, _, _, _)
\* _process_row: the loop over row.items() from position k on
ProcessRowFrom(row, k, processed_row, rename, coerce, null_values, trim_whitespace, extra_fields_policy, schema_version) ==
    IF k > Len(row)
    THEN IF schema_version # NONE /\ schema_version # <<>>
         THEN DictSet(processed_row, <<"_schema_version">>, schema_version)
         ELSE processed_row
    ELSE LET field == row[k].field
             raw == row[k].value
             output_field == MapGet(rename, field, field)
             stripped == IF trim_whitespace /\ IsStr(raw) THEN Strip(raw) ELSE raw
             isNull == \E i \in 1..Len(null_values) : null_values[i] = stripped
             coerced == IF stripped # NONE /\ stripped # <<>> /\ MapHas(coerce, field)
                        THEN LET c == CoerceValue(stripped, MapGet(coerce, field, "str"))
                             IN IF c.raised THEN stripped ELSE c.value
                        ELSE stripped
             value == IF isNull THEN NONE ELSE coerced
         IN IF extra_fields_policy = "drop" /\ ~MapHas(rename, field)
            THEN ProcessRowFrom(row, k + 1, processed_row, rename, coerce, null_values,
                                trim_whitespace, extra_fields_policy, schema_version)
            ELSE ProcessRowFrom(row, k + 1, DictSet(processed_row, output_field, value),
                                rename, coerce, null_values,
                                trim_whitespace, extra_fields_policy, schema_version)

\* def _process_row(self, row, rename, coerce, null_values, trim_whitespace,
\*                  extra_fields_policy, schema_version=None)
ProcessRow(row, rename, coerce, null_values, trim_whitespace, extra_fields_policy, schema_version) ==
    ProcessRowFrom(row, 1, <<>>, rename, coerce, null_values,
                   trim_whitespace, extra_fields_policy, schema_version)

\* Positional parameters _process_row accepts after self
ProcessRowMaxArgs == 7

\* Positional arguments parse_stream passes: row, include, rename, coerce,
\* null_values, trim_whitespace, extra_fields_policy, schema_version
ProcessRowArgsPassed == 8

\* self._process_row(row, include, rename, ...) in parse_stream: a call with
\* more positional arguments than the method accepts raises TypeError before
\* the body runs
ProcessRowCall(row, cfg) ==
    IF ProcessRowArgsPassed > ProcessRowMaxArgs
    THEN [raised |-> TRUE, value |-> NONE]
    ELSE [raised |-> FALSE,
          value |-> ProcessRow(row, cfg.rename, cfg.coerce,
                               EffectiveNullValues(cfg.null_values),
                               cfg.trim_whitespace, cfg.extra_fields_policy,
                               cfg.schema_version)]

\* Rows csv.DictReader returns: blank rows are skipped
NonBlank(rows) == SelectSeq(rows, LAMBDA r : r # <<>>)

IdleCsvStream ==
    /\ ps_pc = "idle"
    /\ ps_cfg = NONE
    /\ ps_lines = <<>>
    /\ ps_fieldnames = NONE
    /\ ps_reader = <<>>
    /\ ps_records_written = 0
    /\ jsonl_records = <<>>
    /\ progress = <<>>

InitCsvStream ==
    /\ ps_pc = "start"
    /\ ps_cfg \in CsvConfigs
    /\ ps_lines \in SeqsUpTo(LinePool, MaxLines)
    /\ ps_fieldnames = NONE
    /\ ps_reader = <<>>
    /\ ps_records_written = 0
    /\ jsonl_records = <<>>
    /\ progress = <<>>

\* Collect the lines, return when there are none, build the DictReader, set
\* reader.fieldnames from `headers`, and skip skip_rows rows (returning when
\* the reader runs out). Without explicit headers the reader takes the first
\* row as its fieldnames when the first row is requested.
StartParseStream ==
    /\ ps_pc = "start"
    /\ IF ps_lines = <<>>
       THEN /\ ps_pc' = "done"
            /\ UNCHANGED <<ps_fieldnames, ps_reader>>
       ELSE LET explicit == ps_cfg.headers # NONE /\ ps_cfg.headers # <<>>
                fieldnames == IF explicit THEN ps_cfg.headers ELSE ps_lines[1]
                data == NonBlank(IF explicit THEN ps_lines ELSE Tail(ps_lines))
            IN /\ ps_fieldnames' = fieldnames
               /\ IF Len(data) < ps_cfg.skip_rows
                  THEN /\ ps_pc' = "done"
                       /\ ps_reader' = <<>>
                  ELSE /\ ps_pc' = "rows"
                       /\ ps_reader' = SubSeq(data, ps_cfg.skip_rows + 1, Len(data))
    /\ UNCHANGED <<ps_cfg, ps_lines, ps_records_written, jsonl_records, progress>>

\* One iteration of `for row in reader`
ParseStreamRow ==
    /\ ps_pc = "rows"
    /\ ps_reader # <<>>
    /\ LET row == RowDict(ps_fieldnames, Head(ps_reader))
           call == ProcessRowCall(row, ps_cfg)
       IN IF Truthy(ps_cfg.limit_rows) /\ ps_records_written >= ps_cfg.limit_rows
          THEN \* break
               /\ ps_pc' = "final"
               /\ UNCHANGED <<ps_reader, ps_records_written, jsonl_records, progress>>
          ELSE /\ ps_reader' = Tail(ps_reader)
               /\ IF call.raised
                  THEN \* except Exception: raise when on_error == "fail", else pass
                       /\ ps_pc' = IF ps_cfg.on_error = "fail" THEN "raised" ELSE "rows"
                       /\ UNCHANGED <<ps_records_written, jsonl_records, progress>>
                  ELSE /\ jsonl_records' = Append(jsonl_records, call.value)
                       /\ ps_records_written' = ps_records_written + 1
                       /\ progress' = IF (ps_records_written + 1) % batch_size = 0
                                      THEN Append(progress, ps_records_written + 1)
                                      ELSE progress
                       /\ ps_pc' = "rows"
    /\ UNCHANGED <<ps_cfg, ps_lines, ps_fieldnames>>

\* The reader is exhausted: the for loop ends
EndOfRows ==
    /\ ps_pc = "rows"
    /\ ps_reader = <<>>
    /\ ps_pc' = "final"
    /\ UNCHANGED <<ps_cfg, ps_lines, ps_fieldnames, ps_reader, ps_records_written,
                   jsonl_records, progress>>

\* Yield final count
FinalYield ==
    /\ ps_pc = "final"
    /\ progress' = IF ps_records_written > 0
                   THEN Append(progress, ps_records_written)
                   ELSE progress
    /\ ps_pc' = "done"
    /\ UNCHANGED <<ps_cfg, ps_lines, ps_fieldnames, ps_reader, ps_records_written,
                   jsonl_records>>

NextCsvStream ==
    \/ StartParseStream
    \/ ParseStreamRow
    \/ EndOfRows
    \/ FinalYield

(***************************************************************************)
(* CsvResourceParser.parse                                                 *)
(***************************************************************************)
MaxDataRows == 3
MaxOptions == 2

\* The header line and the data lines of the modelled files, as the csv
\* reader splits them: a row with leading blanks in a numeric cell, a row
\* longer than the header with a non-numeric cell, a row shorter than it
HeaderRow == <<<<"n">>, <<"a">>>>

DataRowPool ==
    { <<<<"J">>, <<" ", "3", "0">>>>,
      <<<<" ", "N", "A">>, <<"x">>, <<"z">>>>,
      <<<<"-">>>> }

CsvFiles ==
    SeqsUpTo(DataRowPool, MaxDataRows)
    \cup {<<HeaderRow>> \o rows : rows \in SeqsUpTo(DataRowPool, MaxDataRows)}

IncludePool == {NONE, <<<<"a">>, <<"n">>>>, <<<<"a">>, <<"q">>>>}
RenamePool == {{}, {<< <<"n">>, <<"f">> >>}}
CoercePool == {{}, {<< <<"a">>, "int" >>}}
NullValuesPool == {NONE, <<>>, <<<<"N", "A">>, <<"-">>>>}

\* The dataclass defaults
DefaultConfig ==
    [ has_header |-> TRUE, headers |-> NONE, include |-> NONE, rename |-> {},
      coerce |-> {}, null_values |-> NONE, trim_whitespace |-> TRUE,
      skip_rows |-> 0, limit_rows |-> NoLimit, on_error |-> "skip",
      extra_fields_policy |-> "keep", schema_version |-> NONE ]

\* How many options a configuration sets to something else than the default
OptionsSet(c) ==
    (IF c.has_header # DefaultConfig.has_header THEN 1 ELSE 0)
    + (IF c.headers # DefaultConfig.headers THEN 1 ELSE 0)
    + (IF c.include # DefaultConfig.include THEN 1 ELSE 0)
    + (IF c.rename # DefaultConfig.rename THEN 1 ELSE 0)
    + (IF c.coerce # DefaultConfig.coerce THEN 1 ELSE 0)
    + (IF c.null_values # DefaultConfig.null_values THEN 1 ELSE 0)
    + (IF c.trim_whitespace # DefaultConfig.trim_whitespace THEN 1 ELSE 0)
    + (IF c.skip_rows # DefaultConfig.skip_rows THEN 1 ELSE 0)
    + (IF c.limit_rows # DefaultConfig.limit_rows THEN 1 ELSE 0)
    + (IF c.on_error # DefaultConfig.on_error THEN 1 ELSE 0)

\* Constructor configurations with at most MaxOptions options set
ParseConfigs ==
    { c \in [ has_header : BOOLEAN,
              headers : HeaderPool,
              include : IncludePool,
              rename : RenamePool,
              coerce : CoercePool,
              null_values : NullValuesPool,
              trim_whitespace : BOOLEAN,
              skip_rows : 0..MaxSkipRows,
              limit_rows : {NoLimit} \cup 0..MaxLimitRows,
              on_error : {"skip", "fail"},
              extra_fields_policy : {"keep"},
              schema_version : {NONE} ] : OptionsSet(c) <= MaxOptions }

\* parse has not returned
NoReturn == -1

RECURSIVE IntToText(_)
\* str(n) of a natural number
IntToText(n) ==
    LET digit == <<"0", "1", "2", "3", "4", "5", "6", "7", "8", "9">>
    IN IF n < 10 THEN <<digit[n + 1]>> ELSE IntToText(n \div 10) \o <<digit[(n % 10) + 1]>>

\* `x in lst` on a list of texts
InList(x, lst) == \E i \in 1..Len(lst) : lst[i] = x

\* `if include:` is false for None and for the empty list
IncludeGiven(include) == include # NONE /\ include # <<>>

RECURSIVE IndicesIn(_, _, _)
\* for i, header in enumerate(headers): if header in include: append(i)
IndicesIn(headers, include, i) ==
    IF i > Len(headers) THEN <<>>
    ELSE (IF InList(headers[i], include) THEN <<i>> ELSE <<>>)
         \o IndicesIn(headers, include, i + 1)

\* Column selection in the order of the include list
IncludeIndicesInIncludeOrder(headers, include) ==
    IF IncludeGiven(include)
    THEN LET found == SelectSeq(include, LAMBDA h : InList(h, headers))
         IN [k \in 1..Len(found) |->
                CHOOSE i \in 1..Len(headers) :
                    /\ headers[i] = found[k]
                    /\ \A j \in 1..(i - 1) : headers[j] # found[k]]
    ELSE [i \in 1..Len(headers) |-> i]

\* Apply column selection: the indices of the header names found in include,
\* in header order; every index when include is not given
IncludeIndices(headers, include) ==
    IF IncludeGiven(include) THEN IndicesIn(headers, include, 1)
    ELSE [i \in 1..Len(headers) |-> i]

\* headers after column selection and renaming
RenamedHeaders(headers, indices, include, rename) ==
    LET filtered == IF IncludeGiven(include)
                    THEN [k \in 1..Len(indices) |-> headers[indices[k]]]
                    ELSE headers
    IN [k \in 1..Len(filtered) |-> MapGet(rename, filtered[k], filtered[k])]

\* The selected cells of a row, padded with "" and cut to the header length
FilteredRow(row, indices, n) ==
    LET selected == IF indices # <<>>
                    THEN [k \in 1..Len(indices) |->
                             IF indices[k] <= Len(row) THEN row[indices[k]] ELSE <<>>]
                    ELSE row
    IN [k \in 1..n |-> IF k <= Len(selected) THEN selected[k] ELSE <<>>]

\* The coercion guard without the None test
CoerceAlways(value, header, coerce) == MapHas(coerce, header)

\* if value is not None and header in coerce
CoerceGuard(value, header, coerce) == value # NONE /\ MapHas(coerce, header)

\* The body of `for header, value in zip(renamed_headers, filtered_row)`:
\* strip, null normalisation, coercion
ParseCell(header, cell, cfg) ==
    LET stripped == IF cfg.trim_whitespace THEN Strip(cell) ELSE cell
        nulled == IF InList(stripped, EffectiveNullValues(cfg.null_values))
                  THEN NONE ELSE stripped
        call == CoerceGuard(nulled, header, cfg.coerce)
        c == CoerceValue(nulled, MapGet(cfg.coerce, header, "str"))
    IN [raised |-> call /\ c.raised,
        value |-> IF call THEN c.value ELSE nulled,
        coerce_calls |-> IF call THEN {nulled} ELSE {}]

RECURSIVE BuildRecordFrom(_, _, _, _, _, _)
\* The record of one row from column k on; a raising coercion ends it
BuildRecordFrom(k, headers, cells, record, calls, cfg) ==
    IF k > Len(headers)
    THEN [raised |-> FALSE, record |-> record, coerce_calls |-> calls]
    ELSE LET c == ParseCell(headers[k], cells[k], cfg)
         IN IF c.raised
            THEN [raised |-> TRUE, record |-> record,
                  coerce_calls |-> calls \cup c.coerce_calls]
            ELSE BuildRecordFrom(k + 1, headers, cells,
                                 DictSet(record, headers[k], c.value),
                                 calls \cup c.coerce_calls, cfg)

\* row_num + skip_rows + (2 if has_header else 1)
SourceRow(n, cfg) == n + cfg.skip_rows + (IF cfg.has_header THEN 2 ELSE 1)

\* The record written for a row: its cells, _schema_version when configured,
\* oc:source_row
BuildRecord(row, headers, indices, n, cfg) ==
    LET b == BuildRecordFrom(1, headers, FilteredRow(row, indices, Len(headers)),
                             <<>>, {}, cfg)
        versioned == IF cfg.schema_version # NONE /\ cfg.schema_version # <<>>
                     THEN DictSet(b.record, <<"_schema_version">>, cfg.schema_version)
                     ELSE b.record
    IN [raised |-> b.raised,
        record |-> DictSet(versioned, <<"oc:source_row">>, IntToText(SourceRow(n, cfg))),
        coerce_calls |-> b.coerce_calls]

\* A row-level except that swallows under every policy
RowExceptSwallows(on_error) == "rows"

\* except Exception: raise when on_error == "fail", else continue
RowExcept(on_error) == IF on_error = "fail" THEN "raised" ELSE "rows"

\* write_stream.write(json_line + self.line_separator) with the record put first
WriteFirst(stream, record) == <<record>> \o stream

\* write_stream.write(json_line + self.line_separator)
WriteLine(stream, record) == Append(stream, record)

\* records_written carried over from an earlier call
RecordsWrittenKept(previous) == previous

\* records_written = 0 at the entry of parse
RecordsWrittenAtEntry(previous) == 0

IdleCsvParse ==
    /\ cp_pc = "idle"
    /\ cp_self = NONE
    /\ csvfile = <<>>
    /\ cp_reader = <<>>
    /\ renamed_headers = <<>>
    /\ include_indices = <<>>
    /\ row_num = 0
    /\ cp_records_written = 0
    /\ write_stream = <<>>
    /\ source_lines = <<>>
    /\ dropped = {}
    /\ coerce_calls = {}
    /\ cp_return = NoReturn
    /\ cp_call = 1
    /\ first_call = NONE

\* A constructed strategy and a file, at the entry of parse
InitCsvParse ==
    /\ cp_pc = "start"
    /\ cp_self \in ParseConfigs
    /\ csvfile \in CsvFiles
    /\ cp_reader = <<>>
    /\ renamed_headers = <<>>
    /\ include_indices = <<>>
    /\ row_num = 0
    /\ cp_records_written = RecordsWrittenAtEntry(0)
    /\ write_stream = <<>>
    /\ source_lines = <<>>
    /\ dropped = {}
    /\ coerce_calls = {}
    /\ cp_return = NoReturn
    /\ cp_call = 1
    /\ first_call = NONE

\* parse up to the row loop: header handling, column selection, renaming and
\* the skipping of skip_rows rows
ParseStart ==
    /\ cp_pc = "start"
    /\ LET cfg == cp_self
           readHeader == cfg.has_header /\ cfg.headers = NONE
       IN IF readHeader /\ csvfile = <<>>
          THEN \* StopIteration: return 0
               /\ cp_pc' = "returned"
               /\ cp_return' = 0
               /\ UNCHANGED <<cp_reader, renamed_headers, include_indices>>
          ELSE IF ~cfg.has_header /\ cfg.headers = NONE
          THEN \* raise ValueError, caught by the outer except
               /\ IF cfg.on_error = "fail"
                  THEN cp_pc' = "raised" /\ cp_return' = NoReturn
                  ELSE cp_pc' = "returned" /\ cp_return' = cp_records_written
               /\ UNCHANGED <<cp_reader, renamed_headers, include_indices>>
          ELSE LET headers == IF readHeader THEN csvfile[1] ELSE cfg.headers
                   rest == IF readHeader THEN Tail(csvfile) ELSE csvfile
                   indices == IncludeIndices(headers, cfg.include)
               IN /\ include_indices' = indices
                  /\ renamed_headers' = RenamedHeaders(headers, indices, cfg.include,
                                                       cfg.rename)
                  /\ IF Len(rest) < cfg.skip_rows
                     THEN \* StopIteration while skipping: return 0
                          /\ cp_pc' = "returned"
                          /\ cp_return' = 0
                          /\ cp_reader' = <<>>
                     ELSE /\ cp_pc' = "rows"
                          /\ cp_return' = NoReturn
                          /\ cp_reader' = SubSeq(rest, cfg.skip_rows + 1, Len(rest))
    /\ UNCHANGED <<cp_self, csvfile, row_num, cp_records_written, write_stream,
                   source_lines, dropped, coerce_calls, cp_call, first_call>>

\* One iteration of `for row_num, row in enumerate(reader)`
ParseRow ==
    /\ cp_pc = "rows"
    /\ cp_reader # <<>>
    /\ LET cfg == cp_self
           line == Len(csvfile) - Len(cp_reader) + 1
           b == BuildRecord(Head(cp_reader), renamed_headers, include_indices,
                            row_num, cfg)
       IN IF Truthy(cfg.limit_rows) /\ cp_records_written >= cfg.limit_rows
          THEN \* break, then return records_written
               /\ cp_pc' = "returned"
               /\ cp_return' = cp_records_written
               /\ UNCHANGED <<cp_reader, row_num, cp_records_written, write_stream,
                              source_lines, dropped, coerce_calls>>
          ELSE /\ cp_reader' = Tail(cp_reader)
               /\ row_num' = row_num + 1
               /\ coerce_calls' = coerce_calls \cup b.coerce_calls
               /\ IF b.raised
                  THEN \* except Exception: raise when on_error == "fail", else continue
                       /\ cp_pc' = RowExcept(cfg.on_error)
                       /\ dropped' = dropped \cup {line}
                       /\ UNCHANGED <<cp_records_written, write_stream, source_lines,
                                      cp_return>>
                  ELSE /\ write_stream' = WriteLine(write_stream, b.record)
                       /\ source_lines' = Append(source_lines, line)
                       /\ cp_records_written' = cp_records_written + 1
                       /\ UNCHANGED <<cp_pc, dropped, cp_return>>
    /\ UNCHANGED <<cp_self, csvfile, renamed_headers, include_indices, cp_call,
                   first_call>>

\* The reader is exhausted: return records_written
ParseReturn ==
    /\ cp_pc = "rows"
    /\ cp_reader = <<>>
    /\ cp_pc' = "returned"
    /\ cp_return' = cp_records_written
    /\ UNCHANGED <<cp_self, csvfile, cp_reader, renamed_headers, include_indices,
                   row_num, cp_records_written, write_stream, source_lines, dropped,
                   coerce_calls, cp_call, first_call>>

\* The caller calls parse again on the same instance, with the same file and
\* a fresh write_stream
ParseAgain ==
    /\ cp_pc \in {"returned", "raised"}
    /\ cp_call = 1
    /\ first_call' = [pc |-> cp_pc, output |-> write_stream, return |-> cp_return]
    /\ cp_call' = 2
    /\ cp_pc' = "start"
    /\ cp_reader' = <<>>
    /\ renamed_headers' = <<>>
    /\ include_indices' = <<>>
    /\ row_num' = 0
    /\ cp_records_written' = RecordsWrittenAtEntry(cp_records_written)
    /\ write_stream' = <<>>
    /\ source_lines' = <<>>
    /\ dropped' = {}
    /\ coerce_calls' = {}
    /\ cp_return' = NoReturn
    /\ UNCHANGED <<cp_self, csvfile>>

NextCsvParse ==
    \/ ParseStart
    \/ ParseRow
    \/ ParseReturn
    \/ ParseAgain

(***************************************************************************)
(* FixedWidthResourceParser.parse                                          *)
(***************************************************************************)
MaxFileLines == 3

\* Lines as readlines() returns them, with their line feed
FixedWidthLinePool ==
    { <<"a", "b", "1", "2", "\n">>,
      <<" ", " ", "x", "\n">>,
      <<"\n">> }

\* field_specs lists: two fields of width 2, and a list whose second entry
\* has no "length" key
FieldSpecsPool ==
    { << [name |-> <<"n">>, start |-> 1, length |-> 2],
         [name |-> <<"a">>, start |-> 3, length |-> 2] >>,
      << [name |-> <<"n">>, start |-> 1, length |-> 2],
         [name |-> <<"a">>, start |-> 3] >> }

FixedWidthConfigs ==
    [ field_specs : FieldSpecsPool,
      skip_rows : 0..MaxSkipRows,
      limit_rows : {NoLimit} \cup 0..MaxLimitRows,
      on_error : {"skip", "fail"},
      schema_version : {NONE},
      ocid_generator : {{}} ]

\* _get_default_us_fl_field_specs: the 65 fields of the US_FL format
DefaultUsFlFieldSpecs ==
    <<
       [name |-> <<"C", "O", "R", "_", "N", "U", "M", "B", "E", "R">>,
        start |-> 1, length |-> 12],
       [name |-> <<"C", "O", "R", "_", "N", "A", "M", "E">>,
        start |-> 13, length |-> 120],
       [name |-> <<"C", "O", "R", "_", "S", "T", "A", "T", "U", "S">>,
        start |-> 204, length |-> 6],
       [name |-> <<"C", "O", "R", "_", "F", "I", "L", "I", "N", "G", "_", "T", "Y", "P", "E">>,
        start |-> 210, length |-> 6],
       [name |-> <<"C", "O", "R", "_", "F", "I", "L", "E", "_", "D", "A", "T", "E">>,
        start |-> 216, length |-> 8],
       [name |-> <<"C", "O", "R", "_", "P", "R", "I", "N", "C", "_", "A", "D", "D", "_", "1">>,
        start |-> 220, length |-> 50],
       [name |-> <<"C", "O", "R", "_", "P", "R", "I", "N", "C", "_", "A", "D", "D", "_", "2">>,
        start |-> 270, length |-> 50],
       [name |-> <<"C", "O", "R", "_", "P", "R", "I", "N", "C", "_", "C", "I", "T", "Y">>,
        start |-> 304, length |-> 30],
       [name |-> <<"C", "O", "R", "_", "P", "R", "I", "N", "C", "_", "Z", "I", "P">>,
        start |-> 334, length |-> 10],
       [name |-> <<"C", "O", "R", "_", "M", "A", "I", "L", "_", "A", "D", "D", "_", "1">>,
        start |-> 344, length |-> 50],
       [name |-> <<"C", "O", "R", "_", "M", "A", "I", "L", "_", "A", "D", "D", "_", "2">>,
        start |-> 394, length |-> 50],
       [name |-> <<"C", "O", "R", "_", "M", "A", "I", "L", "_", "C", "I", "T", "Y">>,
        start |-> 444, length |-> 30],
       [name |-> <<"C", "O", "R", "_", "M", "A", "I", "L", "_", "S", "T", "A", "T", "E">>,
        start |-> 474, length |-> 2],
       [name |-> <<"C", "O", "R", "_", "M", "A", "I", "L", "_", "Z", "I", "P">>,
        start |-> 476, length |-> 10],
       [name |-> <<"C", "O", "R", "_", "M", "A", "I", "L", "_", "C", "O", "U", "N", "T", "R", "Y">>,
        start |-> 486, length |-> 2],
       [name |-> <<"R", "A", "_", "N", "A", "M", "E">>,
        start |-> 488, length |-> 50],
       [name |-> <<"R", "A", "_", "N", "A", "M", "E", "_", "T", "Y", "P", "E">>,
        start |-> 538, length |-> 1],
       [name |-> <<"R", "A", "_", "A", "D", "D", "_", "1">>,
        start |-> 539, length |-> 50],
       [name |-> <<"R", "A", "_", "C", "I", "T", "Y">>,
        start |-> 589, length |-> 30],
       [name |-> <<"R", "A", "_", "S", "T", "A", "T", "E">>,
        start |-> 619, length |-> 2],
       [name |-> <<"R", "A", "_", "Z", "I", "P", "5">>,
        start |-> 621, length |-> 5],
       [name |-> <<"P", "R", "I", "N", "C", "1", "_", "T", "I", "T", "L", "E">>,
        start |-> 544, length |-> 4],
       [name |-> <<"P", "R", "I", "N", "C", "1", "_", "N", "A", "M", "E", "_", "T", "Y", "P", "E">>,
        start |-> 548, length |-> 1],
       [name |-> <<"P", "R", "I", "N", "C", "1", "_", "N", "A", "M", "E">>,
        start |-> 549, length |-> 46],
       [name |-> <<"P", "R", "I", "N", "C", "1", "_", "A", "D", "D", "_", "1">>,
        start |-> 595, length |-> 50],
       [name |-> <<"P", "R", "I", "N", "C", "1", "_", "C", "I", "T", "Y">>,
        start |-> 645, length |-> 30],
       [name |-> <<"P", "R", "I", "N", "C", "1", "_", "S", "T", "A", "T", "E">>,
        start |-> 675, length |-> 2],
       [name |-> <<"P", "R", "I", "N", "C", "1", "_", "Z", "I", "P", "5">>,
        start |-> 677, length |-> 5],
       [name |-> <<"P", "R", "I", "N", "C", "2", "_", "T", "I", "T", "L", "E">>,
        start |-> 682, length |-> 4],
       [name |-> <<"P", "R", "I", "N", "C", "2", "_", "N", "A", "M", "E", "_", "T", "Y", "P", "E">>,
        start |-> 686, length |-> 1],
       [name |-> <<"P", "R", "I", "N", "C", "2", "_", "N", "A", "M", "E">>,
        start |-> 687, length |-> 46],
       [name |-> <<"P", "R", "I", "N", "C", "2", "_", "A", "D", "D", "_", "1">>,
        start |-> 733, length |-> 50],
       [name |-> <<"P", "R", "I", "N", "C", "2", "_", "C", "I", "T", "Y">>,
        start |-> 783, length |-> 30],
       [name |-> <<"P", "R", "I", "N", "C", "2", "_", "S", "T", "A", "T", "E">>,
        start |-> 813, length |-> 2],
       [name |-> <<"P", "R", "I", "N", "C", "2", "_", "Z", "I", "P", "5">>,
        start |-> 815, length |-> 5],
       [name |-> <<"P", "R", "I", "N", "C", "3", "_", "T", "I", "T", "L", "E">>,
        start |-> 820, length |-> 4],
       [name |-> <<"P", "R", "I", "N", "C", "3", "_", "N", "A", "M", "E", "_", "T", "Y", "P", "E">>,
        start |-> 824, length |-> 1],
       [name |-> <<"P", "R", "I", "N", "C", "3", "_", "N", "A", "M", "E">>,
        start |-> 825, length |-> 46],
       [name |-> <<"P", "R", "I", "N", "C", "3", "_", "A", "D", "D", "_", "1">>,
        start |-> 871, length |-> 50],
       [name |-> <<"P", "R", "I", "N", "C", "3", "_", "C", "I", "T", "Y">>,
        start |-> 921, length |-> 30],
       [name |-> <<"P", "R", "I", "N", "C", "3", "_", "S", "T", "A", "T", "E">>,
        start |-> 951, length |-> 2],
       [name |-> <<"P", "R", "I", "N", "C", "3", "_", "Z", "I", "P", "5">>,
        start |-> 953, length |-> 5],
       [name |-> <<"P", "R", "I", "N", "C", "4", "_", "T", "I", "T", "L", "E">>,
        start |-> 958, length |-> 4],
       [name |-> <<"P", "R", "I", "N", "C", "4", "_", "N", "A", "M", "E", "_", "T", "Y", "P", "E">>,
        start |-> 962, length |-> 1],
       [name |-> <<"P", "R", "I", "N", "C", "4", "_", "N", "A", "M", "E">>,
        start |-> 963, length |-> 46],
       [name |-> <<"P", "R", "I", "N", "C", "4", "_", "A", "D", "D", "_", "1">>,
        start |-> 1009, length |-> 50],
       [name |-> <<"P", "R", "I", "N", "C", "4", "_", "C", "I", "T", "Y">>,
        start |-> 1059, length |-> 30],
       [name |-> <<"P", "R", "I", "N", "C", "4", "_", "S", "T", "A", "T", "E">>,
        start |-> 1089, length |-> 2],
       [name |-> <<"P", "R", "I", "N", "C", "4", "_", "Z", "I", "P", "5">>,
        start |-> 1091, length |-> 5],
       [name |-> <<"P", "R", "I", "N", "C", "5", "_", "T", "I", "T", "L", "E">>,
        start |-> 1096, length |-> 4],
       [name |-> <<"P", "R", "I", "N", "C", "5", "_", "N", "A", "M", "E", "_", "T", "Y", "P", "E">>,
        start |-> 1100, length |-> 1],
       [name |-> <<"P", "R", "I", "N", "C", "5", "_", "N", "A", "M", "E">>,
        start |-> 1101, length |-> 46],
       [name |-> <<"P", "R", "I", "N", "C", "5", "_", "A", "D", "D", "_", "1">>,
        start |-> 1147, length |-> 50],
       [name |-> <<"P", "R", "I", "N", "C", "5", "_", "C", "I", "T", "Y">>,
        start |-> 1197, length |-> 30],
       [name |-> <<"P", "R", "I", "N", "C", "5", "_", "S", "T", "A", "T", "E">>,
        start |-> 1227, length |-> 2],
       [name |-> <<"P", "R", "I", "N", "C", "5", "_", "Z", "I", "P", "5">>,
        start |-> 1229, length |-> 5],
       [name |-> <<"P", "R", "I", "N", "C", "6", "_", "T", "I", "T", "L", "E">>,
        start |-> 1234, length |-> 4],
       [name |-> <<"P", "R", "I", "N", "C", "6", "_", "N", "A", "M", "E", "_", "T", "Y", "P", "E">>,
        start |-> 1238, length |-> 1],
       [name |-> <<"P", "R", "I", "N", "C", "6", "_", "N", "A", "M", "E">>,
        start |-> 1239, length |-> 46],
       [name |-> <<"P", "R", "I", "N", "C", "6", "_", "A", "D", "D", "_", "1">>,
        start |-> 1285, length |-> 50],
       [name |-> <<"P", "R", "I", "N", "C", "6", "_", "C", "I", "T", "Y">>,
        start |-> 1335, length |-> 30],
       [name |-> <<"P", "R", "I", "N", "C", "6", "_", "S", "T", "A", "T", "E">>,
        start |-> 1365, length |-> 2],
       [name |-> <<"P", "R", "I", "N", "C", "6", "_", "Z", "I", "P", "5">>,
        start |-> 1367, length |-> 5],
       [name |-> <<"S", "T", "A", "T", "E", "_", "C", "O", "U", "N", "T", "R", "Y">>,
        start |-> 1372, length |-> 2],
       [name |-> <<"R", "e", "t", "r", "i", "e", "v", "e", "d", "A", "t">>,
        start |-> 1374, length |-> 10]
    >>

\* parser_kv_args.get("field_specs", self._get_default_us_fl_field_specs()):
\* NONE stands for a parser_kv_args without the key
FieldSpecs(cfg) ==
    IF cfg.field_specs = NONE THEN DefaultUsFlFieldSpecs ELSE cfg.field_specs

\* field_specs of every kind: the lists above, no key, the empty list, and a
\* list with a field that starts inside the line's blanks and a field that
\* starts beyond every line
FieldSpecsPoolAll ==
    FieldSpecsPool
    \cup { NONE,
           <<>>,
           << [name |-> <<"p">>, start |-> 2, length |-> 3],
              [name |-> <<"q">>, start |-> 9, length |-> 1] >> }

\* ocid_generator: not configured, with a jurisdiction_code only, with a
\* jurisdiction_code and a company_number_field
OcidGeneratorPool ==
    { {},
      { <<"jurisdiction_code", <<"g", "b">>>> },
      { <<"jurisdiction_code", <<"g", "b">>>>, <<"company_number_field", <<"a">>>> } }

FixedWidthConfigsAll ==
    [ field_specs : FieldSpecsPoolAll,
      skip_rows : 0..MaxSkipRows,
      limit_rows : {NoLimit} \cup 0..MaxLimitRows,
      on_error : {"skip", "fail"},
      schema_version : {NONE},
      ocid_generator : OcidGeneratorPool ]

RECURSIVE RStripNewline(_)
\* line.rstrip('\n\r')
RStripNewline(s) ==
    IF s # <<>> /\ s[Len(s)] \in {"\n", "\r"}
    THEN RStripNewline(SubSeq(s, 1, Len(s) - 1)) ELSE s

\* The extraction with start taken as a 0-based offset
ExtractFieldZeroBased(line, spec) ==
    LET start == spec.start
        end == start + spec.length
        value == IF start < Len(line)
                 THEN Strip(SubSeq(line, start + 1, IF end < Len(line) THEN end ELSE Len(line)))
                 ELSE <<>>
    IN IF value = <<>> THEN NONE ELSE value

\* line[start:end].strip() for the 0-based start = spec.start - 1, "" when
\* start is beyond the line; an empty value becomes None
ExtractField(line, spec) ==
    LET start == spec.start - 1
        end == start + spec.length
        value == IF start < Len(line)
                 THEN Strip(SubSeq(line, start + 1, IF end < Len(line) THEN end ELSE Len(line)))
                 ELSE <<>>
    IN IF value = <<>> THEN NONE ELSE value

RECURSIVE ParseFieldSpecs(_, _, _, _, _)
\* The loop "for field_spec in field_specs" over field_specs[lo..hi], left
\* to right, evaluated by halves; a field spec without one of its keys
\* raises KeyError
ParseFieldSpecs(line, field_specs, lo, hi, record) ==
    IF lo > hi THEN [raised |-> FALSE, record |-> record]
    ELSE IF lo = hi
    THEN LET spec == field_specs[lo]
         IN IF {"name", "start", "length"} \subseteq DOMAIN spec
            THEN [raised |-> FALSE,
                  record |-> DictSet(record, spec.name, ExtractField(line, spec))]
            ELSE [raised |-> TRUE, record |-> record]
    ELSE LET mid == (lo + hi) \div 2
             left == ParseFieldSpecs(line, field_specs, lo, mid, record)
         IN IF left.raised THEN left
            ELSE ParseFieldSpecs(line, field_specs, mid + 1, hi, left.record)

\* _parse_fixed_width_line
ParseFixedWidthLine(line, field_specs, record) ==
    ParseFieldSpecs(line, field_specs, 1, Len(field_specs), record)

\* _generate_ocid: the first 16 hex digits of the digest are kept as the
\* text they are a digest of
GenerateOcid(record, ocid_generator) ==
    LET jurisdiction_code == MapGet(ocid_generator, "jurisdiction_code",
                                    <<"u", "s", "_", "f", "l">>)
        company_number_field ==
            MapGet(ocid_generator, "company_number_field",
                   <<"C", "O", "R", "_", "N", "U", "M", "B", "E", "R">>)
        company_number ==
            IF \E i \in 1..Len(record) : record[i].field = company_number_field
            THEN record[CHOOSE i \in 1..Len(record) :
                            record[i].field = company_number_field].value
            ELSE <<>>
    IN IF company_number # NONE /\ company_number # <<>>
       THEN <<"ocid:v1:co:", "sha256[:16]">> \o jurisdiction_code \o <<"|">>
            \o company_number
       ELSE <<"ocid:v1:co:unknown">>

\* The record written for a line of the window
FixedWidthRecord(line, n, cfg) ==
    LET p == ParseFixedWidthLine(RStripNewline(line), FieldSpecs(cfg), <<>>)
        versioned == IF cfg.schema_version # NONE /\ cfg.schema_version # <<>>
                     THEN DictSet(p.record, <<"_schema_version">>, cfg.schema_version)
                     ELSE p.record
        numbered == DictSet(versioned, <<"oc:source_row">>, IntToText(n))
    IN [raised |-> p.raised,
        record |-> IF cfg.ocid_generator # {}
                   THEN DictSet(numbered, <<"oc:ocid">>,
                                GenerateOcid(numbered, cfg.ocid_generator))
                   ELSE numbered]

\* end_line = len(lines); if limit_rows: end_line = min(start_line + limit_rows, len(lines))
EndLine(skip_rows, limit_rows, n) ==
    IF Truthy(limit_rows)
    THEN (IF skip_rows + limit_rows < n THEN skip_rows + limit_rows ELSE n)
    ELSE n

IdleFixedWidth ==
    /\ fw_pc = "idle"
    /\ parser_kv_args = NONE
    /\ lines = <<>>
    /\ fw_window = <<>>
    /\ line_num = 0
    /\ fw_records_written = 0
    /\ fw_write_stream = <<>>
    /\ fw_source_lines = <<>>
    /\ fw_dropped = {}
    /\ fw_return = NoReturn
    /\ fw_call = 1
    /\ fw_first_call = NONE

\* A configuration and a file, at the entry of parse
InitFixedWidth ==
    /\ fw_pc = "start"
    /\ parser_kv_args \in FixedWidthConfigs
    /\ lines \in SeqsUpTo(FixedWidthLinePool, MaxFileLines)
    /\ fw_window = <<>>
    /\ line_num = 0
    /\ fw_records_written = 0
    /\ fw_write_stream = <<>>
    /\ fw_source_lines = <<>>
    /\ fw_dropped = {}
    /\ fw_return = NoReturn
    /\ fw_call = 1
    /\ fw_first_call = NONE

\* A configuration of any kind and a file, at the entry of parse
InitFixedWidthAll ==
    /\ fw_pc = "start"
    /\ parser_kv_args \in FixedWidthConfigsAll
    /\ lines \in SeqsUpTo(FixedWidthLinePool, MaxFileLines)
    /\ fw_window = <<>>
    /\ line_num = 0
    /\ fw_records_written = 0
    /\ fw_write_stream = <<>>
    /\ fw_source_lines = <<>>
    /\ fw_dropped = {}
    /\ fw_return = NoReturn
    /\ fw_call = 1
    /\ fw_first_call = NONE

\* parse up to the row loop: read the lines and slice lines[start_line:end_line]
FixedWidthStart ==
    /\ fw_pc = "start"
    /\ LET start_line == parser_kv_args.skip_rows
           end_line == EndLine(start_line, parser_kv_args.limit_rows, Len(lines))
       IN /\ fw_window' = SubSeq(lines, start_line + 1, end_line)
          /\ line_num' = start_line + 1
    /\ fw_pc' = "rows"
    /\ UNCHANGED <<parser_kv_args, lines, fw_records_written, fw_write_stream,
                   fw_source_lines, fw_dropped, fw_return, fw_call, fw_first_call>>

\* One iteration of `for line_num, line in enumerate(lines[start_line:end_line], ...)`
FixedWidthRow ==
    /\ fw_pc = "rows"
    /\ fw_window # <<>>
    /\ LET r == FixedWidthRecord(Head(fw_window), line_num, parser_kv_args)
       IN IF r.raised
          THEN \* except Exception: raise when on_error == "fail", else continue
               /\ fw_pc' = RowExcept(parser_kv_args.on_error)
               /\ fw_dropped' = fw_dropped \cup {line_num}
               /\ UNCHANGED <<fw_records_written, fw_write_stream, fw_source_lines>>
          ELSE /\ fw_write_stream' = WriteLine(fw_write_stream, r.record)
               /\ fw_source_lines' = Append(fw_source_lines, line_num)
               /\ fw_records_written' = fw_records_written + 1
               /\ UNCHANGED <<fw_pc, fw_dropped>>
    /\ fw_window' = Tail(fw_window)
    /\ line_num' = line_num + 1
    /\ UNCHANGED <<parser_kv_args, lines, fw_return, fw_call, fw_first_call>>

\* The window is exhausted: return records_written
FixedWidthReturn ==
    /\ fw_pc = "rows"
    /\ fw_window = <<>>
    /\ fw_pc' = "returned"
    /\ fw_return' = fw_records_written
    /\ UNCHANGED <<parser_kv_args, lines, fw_window, line_num, fw_records_written,
                   fw_write_stream, fw_source_lines, fw_dropped, fw_call,
                   fw_first_call>>

\* The caller calls parse again with the same arguments and a fresh write_stream
FixedWidthAgain ==
    /\ fw_pc \in {"returned", "raised"}
    /\ fw_call = 1
    /\ fw_first_call' = [pc |-> fw_pc, output |-> fw_write_stream, return |-> fw_return]
    /\ fw_call' = 2
    /\ fw_pc' = "start"
    /\ fw_window' = <<>>
    /\ line_num' = 0
    /\ fw_records_written' = RecordsWrittenAtEntry(fw_records_written)
    /\ fw_write_stream' = <<>>
    /\ fw_source_lines' = <<>>
    /\ fw_dropped' = {}
    /\ fw_return' = NoReturn
    /\ UNCHANGED <<parser_kv_args, lines>>

NextFixedWidth ==
    \/ FixedWidthStart
    \/ FixedWidthRow
    \/ FixedWidthReturn
    \/ FixedWidthAgain

(***************************************************************************)
(* Worker pool / work queue                                                *)
(***************************************************************************)
MaxJobs == 3
MaxWorkers == 2

Workers == 1..MaxWorkers

\* The "done" signal is given on the success path only
TaskDoneOnSuccessOnly(ok) == IF ok THEN 1 ELSE 0

\* The "done" signal of a job sits in a finally block: it is given once
\* whether the job succeeded or raised
TaskDoneCalls(ok) == 1

IdlePool ==
    /\ pool_pc = "idle"
    /\ njobs = 0
    /\ work_queue = <<>>
    /\ worker = [w \in Workers |-> "stopped"]
    /\ worker_job = [w \in Workers |-> 0]
    /\ taken = <<>>
    /\ done_calls = <<>>
    /\ unfinished_tasks = 0

\* One job per resource is enqueued before the workers start; exactly
\* `concurrency` workers are spawned
InitPool ==
    /\ pool_pc = "draining"
    /\ njobs \in 1..MaxJobs
    /\ work_queue = [j \in 1..njobs |-> j]
    /\ \E concurrency \in 1..MaxWorkers :
          worker = [w \in Workers |-> IF w <= concurrency THEN "idle" ELSE "stopped"]
    /\ worker_job = [w \in Workers |-> 0]
    /\ taken = [j \in 1..njobs |-> 0]
    /\ done_calls = [j \in 1..njobs |-> 0]
    /\ unfinished_tasks = njobs

\* A worker dequeues the job at the head of the queue
Dequeue(w) ==
    /\ pool_pc \in {"draining", "joined"}
    /\ worker[w] = "idle"
    /\ work_queue # <<>>
    /\ LET job == Head(work_queue)
       IN /\ work_queue' = Tail(work_queue)
          /\ worker' = [worker EXCEPT ![w] = "working"]
          /\ worker_job' = [worker_job EXCEPT ![w] = job]
          /\ taken' = [taken EXCEPT ![job] = @ + 1]
    /\ UNCHANGED <<pool_pc, njobs, done_calls, unfinished_tasks>>

\* The job a worker holds ends: converted and uploaded, or an exception that
\* is logged and re-raised out of the worker; either way the job is marked done
FinishJob(w) ==
    /\ worker[w] = "working"
    /\ \E ok \in BOOLEAN :
          LET job == worker_job[w]
              n == TaskDoneCalls(ok)
          IN /\ done_calls' = [done_calls EXCEPT ![job] = @ + n]
             /\ unfinished_tasks' = unfinished_tasks - n
             /\ worker' = [worker EXCEPT ![w] = IF ok THEN "idle" ELSE "failed"]
             /\ worker_job' = [worker_job EXCEPT ![w] = 0]
    /\ UNCHANGED <<pool_pc, njobs, work_queue, taken>>

\* The join on the queue returns when every item put has been marked done
JoinReturns ==
    /\ pool_pc = "draining"
    /\ unfinished_tasks = 0
    /\ pool_pc' = "joined"
    /\ UNCHANGED <<njobs, work_queue, worker, worker_job, taken, done_calls,
                   unfinished_tasks>>

\* After the drain an idle worker finishes
WorkerStops(w) ==
    /\ pool_pc = "joined"
    /\ worker[w] = "idle"
    /\ worker' = [worker EXCEPT ![w] = "stopped"]
    /\ UNCHANGED <<pool_pc, njobs, work_queue, worker_job, taken, done_calls,
                   unfinished_tasks>>

\* The run ends: Completed when every worker finished, Failed as soon as the
\* exception of a worker reaches the run
RunEnds ==
    /\ pool_pc \in {"draining", "joined"}
    /\ \/ /\ \E w \in Workers : worker[w] = "failed"
          /\ pool_pc' = "failed"
       \/ /\ pool_pc = "joined"
          /\ \A w \in Workers : worker[w] = "stopped"
          /\ pool_pc' = "completed"
    /\ UNCHANGED <<njobs, work_queue, worker, worker_job, taken, done_calls,
                   unfinished_tasks>>

NextPool ==
    \/ \E w \in Workers : Dequeue(w)
    \/ \E w \in Workers : FinishJob(w)
    \/ JoinReturns
    \/ \E w \in Workers : WorkerStops(w)
    \/ RunEnds

(***************************************************************************)
(* JSONLStream                                                             *)
(***************************************************************************)
MaxCalls == 3
MaxBatch == 2

LF == "\n"

\* Records callers pass in: insertion-ordered dicts of field -> scalar or None
RecordPool ==
    { << [field |-> <<"n">>, value |-> <<"a", LF, "b">>] >>,
      << [field |-> <<"n">>, value |-> NONE],
         [field |-> <<"a">>, value |-> <<"int", "3", "0">>] >> }

\* json.dump without escaping: the character as it is
RawChar(c) == <<c>>

\* json.dump of one character of a string: control characters, the quote
\* and the backslash are written as escape sequences
EscapeChar(c) ==
    IF c = LF THEN <<"\\", "n">>
    ELSE IF c = "\"" THEN <<"\\", "\"">>
    ELSE IF c = "\\" THEN <<"\\", "\\">>
    ELSE <<c>>

RECURSIVE JsonString(_)
\* The characters of a string between the quotes
JsonString(s) == IF s = <<>> THEN <<>> ELSE EscapeChar(Head(s)) \o JsonString(Tail(s))

\* json.dump of a scalar: null, a number, true/false, or a quoted string
JsonValue(v) ==
    IF v = NONE THEN <<"n", "u", "l", "l">>
    ELSE IF v # <<>> /\ v[1] = "int" THEN Tail(v)
    ELSE IF v # <<>> /\ v[1] = "bool" THEN Tail(v)
    ELSE <<"\"">> \o JsonString(v) \o <<"\"">>

RECURSIVE JsonItems(_)
\* "key": value items, joined by ", "
JsonItems(record) ==
    IF record = <<>> THEN <<>>
    ELSE <<"\"">> \o JsonString(Head(record).field) \o <<"\"", ":", " ">>
         \o JsonValue(Head(record).value)
         \o (IF Len(record) > 1 THEN <<",", " ">> ELSE <<>>)
         \o JsonItems(Tail(record))

\* json.dump(record, self.output_stream, ensure_ascii=False)
JsonDump(record) == <<"{">> \o JsonItems(record) \o <<"}">>

\* write_record on the pair (output_stream, records_written)
WriteRecordTo(st, record) ==
    [stream |-> st.stream \o JsonDump(record) \o <<LF>>,
     count |-> st.count + 1]

RECURSIVE WriteRecordsTo(_, _)
\* write_records: for record in records: self.write_record(record)
WriteRecordsTo(st, records) ==
    IF records = <<>> THEN st
    ELSE WriteRecordsTo(WriteRecordTo(st, Head(records)), Tail(records))

IdleJsonl ==
    /\ js_pc = "idle"
    /\ output_stream = <<>>
    /\ records_written = 0
    /\ js_passed = 0
    /\ js_calls = 0

\* __init__
InitJsonl ==
    /\ js_pc = "open"
    /\ output_stream = <<>>
    /\ records_written = 0
    /\ js_passed = 0
    /\ js_calls = 0

write_record ==
    /\ js_pc = "open"
    /\ js_calls < MaxCalls
    /\ \E record \in RecordPool :
          LET st == WriteRecordTo([stream |-> output_stream, count |-> records_written],
                                  record)
          IN /\ output_stream' = st.stream
             /\ records_written' = st.count
             /\ js_passed' = js_passed + 1
    /\ js_calls' = js_calls + 1
    /\ UNCHANGED js_pc

write_records ==
    /\ js_pc = "open"
    /\ js_calls < MaxCalls
    /\ \E records \in SeqsUpTo(RecordPool, MaxBatch) :
          LET st == WriteRecordsTo([stream |-> output_stream, count |-> records_written],
                                   records)
          IN /\ output_stream' = st.stream
             /\ records_written' = st.count
             /\ js_passed' = js_passed + Len(records)
    /\ js_calls' = js_calls + 1
    /\ UNCHANGED js_pc

NextJsonl ==
    \/ write_record
    \/ write_records

(***************************************************************************)
(* CsvResourceParser.parse and then CsvResourceParser.parse_stream, of one *)
(* instance on one input                                                   *)
(***************************************************************************)
\* One configuration and one input text for both methods
InitCsvBoth ==
    /\ InitCsvStream
    /\ cp_pc = "start"
    /\ cp_self = ps_cfg
    /\ csvfile = ps_lines
    /\ cp_reader = <<>>
    /\ renamed_headers = <<>>
    /\ include_indices = <<>>
    /\ row_num = 0
    /\ cp_records_written = RecordsWrittenAtEntry(0)
    /\ write_stream = <<>>
    /\ source_lines = <<>>
    /\ dropped = {}
    /\ coerce_calls = {}
    /\ cp_return = NoReturn
    /\ cp_call = 1
    /\ first_call = NONE

\* parse runs to its end, then parse_stream runs
NextCsvBoth ==
    \/ (ParseStart \/ ParseRow \/ ParseReturn) /\ UNCHANGED ps_vars
    \/ cp_pc \in {"returned", "raised"} /\ NextCsvStream /\ UNCHANGED cp_vars

(***************************************************************************)
(* The parser factories (parser_factories.py) and the strategy classes     *)
(* they construct                                                          *)
(***************************************************************************)
\* register_parser_strategies
RegisteredNames == {"csv", "fixed_width"}

\* The abstract methods of ResourceParserStrategy
AbstractMethods == {"parse", "parse_stream"}

\* The methods a strategy class defines
ClassMethods(name) ==
    IF name = "csv"
    THEN {"parse", "parse_stream", "_process_row", "_coerce_value"}
    ELSE {"parse", "_parse_fixed_width_line", "_get_default_us_fl_field_specs",
          "_generate_ocid"}

\* The dataclass fields of a strategy class: the keywords its __init__ takes
ClassFields(name) ==
    IF name = "csv"
    THEN {"delimiter", "quotechar", "escapechar", "encoding", "line_separator",
          "has_header", "headers", "include", "rename", "coerce", "null_values",
          "trim_whitespace", "skip_rows", "limit_rows", "on_error",
          "extra_fields_policy", "schema_version"}
    ELSE {"encoding", "line_separator"}

\* The keywords create passes to the class, the same in both of its branches
CreateKeywords(name) ==
    IF name = "csv"
    THEN {"delimiter", "quotechar", "escapechar", "encoding", "line_separator",
          "has_header", "headers", "include", "rename", "coerce", "null_values",
          "trim_whitespace", "skip_rows", "limit_rows", "on_error",
          "extra_fields_policy", "schema_version"}
    ELSE {"encoding", "line_separator", "field_specs", "skip_rows", "limit_rows",
          "on_error", "schema_version", "ocid_generator"}

\* The options validate looks at: each must be a string when given
ValidatedOptions(name) ==
    IF name = "csv" THEN {"delimiter", "quotechar", "encoding"} ELSE {"encoding"}

\* The params given to a factory: some options, each with the type of its value
ParamsPool ==
    UNION { [given -> {"str", "int"}] :
            given \in SUBSET {"delimiter", "encoding", "field_specs", "skip_rows"} }

\* No instance: before create, and when the call of the class raises
NoInstance == [class |-> "None", attributes |-> {}]

\* validate: params_dict = params if isinstance(params, dict) else {}
ValidateRaises(name, params, is_dataclass) ==
    /\ ~is_dataclass
    /\ \E option \in ValidatedOptions(name) \cap DOMAIN params : params[option] # "str"

\* Calling the class: TypeError (no instance) when an abstract method is not
\* implemented or a keyword is not a field of the dataclass
Instantiate(name, keywords) ==
    IF AbstractMethods \subseteq ClassMethods(name) /\ keywords \subseteq ClassFields(name)
    THEN [class |-> name, attributes |-> ClassFields(name)]
    ELSE NoInstance

IdleFactory ==
    /\ fa_pc = "idle"
    /\ fa_name = NONE
    /\ fa_params = <<>>
    /\ fa_is_dataclass = FALSE
    /\ fa_instance = NoInstance

\* A registered name and the params of a configuration
InitFactory ==
    /\ fa_pc = "start"
    /\ fa_name \in RegisteredNames
    /\ fa_params \in ParamsPool
    /\ fa_is_dataclass \in BOOLEAN
    /\ fa_instance = NoInstance

\* validate
FactoryValidate ==
    /\ fa_pc = "start"
    /\ fa_pc' = IF ValidateRaises(fa_name, fa_params, fa_is_dataclass)
                THEN "invalid" ELSE "validated"
    /\ UNCHANGED <<fa_name, fa_params, fa_is_dataclass, fa_instance>>

\* create
FactoryCreate ==
    /\ fa_pc = "validated"
    /\ LET instance == Instantiate(fa_name, CreateKeywords(fa_name))
       IN /\ fa_instance' = instance
          /\ fa_pc' = IF instance = NoInstance THEN "raised" ELSE "created"
    /\ UNCHANGED <<fa_name, fa_params, fa_is_dataclass>>

NextFactory == FactoryValidate \/ FactoryCreate

(***************************************************************************)
(* DateFilterStrategy (filter_factories.py).  A parsed date is the number  *)
(* year * 10000 + month * 100 + day, which orders dates as datetime does.  *)
(***************************************************************************)
\* None, among the parsed dates
NoDate == -1

\* The strptime format of a pattern, one directive or literal per entry
StrptimeFormat(date_pattern) ==
    CASE date_pattern = "YYYYMMDD" -> <<"Y", "m", "d">>
      [] date_pattern = "YYYY-MM-DD" -> <<"Y", "-", "m", "-", "d">>
      [] date_pattern = "MM/DD/YYYY" -> <<"m", "/", "d", "/", "Y">>
      [] date_pattern = "DD/MM/YYYY" -> <<"d", "/", "m", "/", "Y">>

DigitValue(c) == CHOOSE n \in 0..9 : IntToText(n) = <<c>>

\* int() of the text s[pos..pos+n-1] of digits, a leading blank ignored
NumberAt(s, pos, n) ==
    IF n = 1 THEN DigitValue(s[pos])
    ELSE IF n = 2
    THEN (IF s[pos] = " " THEN 0 ELSE 10 * DigitValue(s[pos])) + DigitValue(s[pos + 1])
    ELSE 1000 * DigitValue(s[pos]) + 100 * DigitValue(s[pos + 1])
         + 10 * DigitValue(s[pos + 2]) + DigitValue(s[pos + 3])

\* The regular expression of a directive matches n characters at pos:
\* %Y \d\d\d\d, %m 1[0-2]|0[1-9]|[1-9], %d 3[01]|[12]\d|0[1-9]|[1-9]| [1-9]
DirectiveMatches(s, pos, directive, n) ==
    /\ pos + n - 1 <= Len(s)
    /\ CASE directive = "Y" ->
              n = 4 /\ \A i \in pos..(pos + 3) : s[i] \in Digits
         [] directive = "m" ->
              \/ n = 2 /\ s[pos] = "1" /\ s[pos + 1] \in {"0", "1", "2"}
              \/ n = 2 /\ s[pos] = "0" /\ s[pos + 1] \in Digits \ {"0"}
              \/ n = 1 /\ s[pos] \in Digits \ {"0"}
         [] directive = "d" ->
              \/ n = 2 /\ s[pos] = "3" /\ s[pos + 1] \in {"0", "1"}
              \/ n = 2 /\ s[pos] \in {"1", "2"} /\ s[pos + 1] \in Digits
              \/ n = 2 /\ s[pos] = "0" /\ s[pos + 1] \in Digits \ {"0"}
              \/ n = 1 /\ s[pos] \in Digits \ {"0"}
              \/ n = 2 /\ s[pos] = " " /\ s[pos + 1] \in Digits \ {"0"}

NoMatch == [ok |-> FALSE, end |-> 0, found |-> [Y |-> 0, m |-> 0, d |-> 0]]

RECURSIVE MatchFrom(_, _, _, _)
\* format_regex.match(data_string): the first match in the order the regular
\* expression tries its alternatives, the longer alternative of a directive
\* first, the shorter one when the rest does not match after the longer
MatchFrom(s, pos, format, found) ==
    IF format = <<>> THEN [ok |-> TRUE, end |-> pos, found |-> found]
    ELSE LET directive == Head(format)
             Take(n) ==
                 IF DirectiveMatches(s, pos, directive, n)
                 THEN MatchFrom(s, pos + n, Tail(format),
                                [found EXCEPT ![directive] = NumberAt(s, pos, n)])
                 ELSE NoMatch
         IN IF directive = "Y" THEN Take(4)
            ELSE IF directive \in {"m", "d"}
            THEN (IF Take(2).ok THEN Take(2) ELSE Take(1))
            ELSE IF pos <= Len(s) /\ s[pos] = directive
            THEN MatchFrom(s, pos + 1, Tail(format), found)
            ELSE NoMatch

\* The days of a month of the proleptic Gregorian calendar
DaysInMonth(year, month) ==
    IF month = 2
    THEN (IF year % 4 = 0 /\ (year % 100 # 0 \/ year % 400 = 0) THEN 29 ELSE 28)
    ELSE IF month \in {4, 6, 9, 11} THEN 30 ELSE 31

\* datetime.strptime(date_string, format): ValueError (NoDate) when the
\* format does not match, when unconverted data remains and when the day is
\* out of range for the month or the year is 0
Strptime(date_string, format) ==
    LET match == MatchFrom(date_string, 1, format, NoMatch.found)
        found == match.found
    IN IF /\ match.ok
          /\ match.end = Len(date_string) + 1
          /\ found.Y >= 1
          /\ found.d <= DaysInMonth(found.Y, found.m)
       THEN found.Y * 10000 + found.m * 100 + found.d
       ELSE NoDate

\* _parse_date, for the patterns validate accepts
ParseDate(date_str, date_pattern) == Strptime(date_str, StrptimeFormat(date_pattern))

\* A date written in a pattern, with two-digit month and day
Render(date_pattern, year, month, day) ==
    LET Two(n) == IF n < 10 THEN <<"0">> \o IntToText(n) ELSE IntToText(n)
    IN CASE date_pattern = "YYYYMMDD" -> IntToText(year) \o Two(month) \o Two(day)
         [] date_pattern = "YYYY-MM-DD" ->
              IntToText(year) \o <<"-">> \o Two(month) \o <<"-">> \o Two(day)
         [] date_pattern = "MM/DD/YYYY" ->
              Two(month) \o <<"/">> \o Two(day) \o <<"/">> \o IntToText(year)
         [] date_pattern = "DD/MM/YYYY" ->
              Two(day) \o <<"/">> \o Two(month) \o <<"/">> \o IntToText(year)

\* The values a record holds in its date field: None, "", dates of the
\* pattern around and inside August 2025 and of a day that no month has, a
\* date of another pattern, a date followed by more text, a date with a
\* one-digit month and text that is no date
DateValues(date_pattern) ==
    { NONE, <<>>, <<"x">>, <<"2", "0", "2", "5", "8", "1", "5">> }
    \cup { Render(date_pattern, day[1], day[2], day[3]) :
           day \in { <<2025, 7, 31>>, <<2025, 8, 1>>, <<2025, 8, 15>>,
                     <<2025, 8, 31>>, <<2025, 9, 1>>, <<2025, 2, 30>> } }
    \cup { Render(date_pattern, 2025, 8, 15) \o <<"x">> }
    \cup { Render(IF date_pattern = "YYYYMMDD" THEN "YYYY-MM-DD" ELSE "YYYYMMDD",
                  2025, 8, 15) }

\* The records given to filter: without the date field, and with it
RecordsFor(date_field, date_pattern) ==
    { << [field |-> <<"COR_NUMBER">>, value |-> <<"1">>] >> }
    \cup { << [field |-> date_field, value |-> value],
              [field |-> <<"COR_NUMBER">>, value |-> <<"1">>] >> :
           value \in DateValues(date_pattern) }

\* _extract_date_from_record
ExtractDateFromRecord(self, record) ==
    IF ~(\E i \in 1..Len(record) : record[i].field = self.date_field) THEN NoDate
    ELSE LET date_value ==
                 record[CHOOSE i \in 1..Len(record) :
                            record[i].field = self.date_field].value
         IN IF date_value = NONE \/ date_value = <<>> THEN NoDate
            ELSE ParseDate(date_value, self.date_pattern)

\* The "between" branch with the end bound taken as exclusive
BetweenEndExclusive(self, record_date) ==
    IF self.parsed_start_date # NoDate /\ record_date < self.parsed_start_date
    THEN FALSE
    ELSE IF self.parsed_end_date # NoDate /\ record_date >= self.parsed_end_date
    THEN FALSE
    ELSE TRUE

\* The "between" branch of filter
Between(self, record_date) ==
    IF self.parsed_start_date # NoDate /\ record_date < self.parsed_start_date
    THEN FALSE
    ELSE IF self.parsed_end_date # NoDate /\ record_date > self.parsed_end_date
    THEN FALSE
    ELSE TRUE

\* filter
Filter(self, data) ==
    LET record_date == ExtractDateFromRecord(self, data)
    IN IF record_date = NoDate THEN FALSE
       ELSE CASE self.comparison_operator = "between" -> Between(self, record_date)
              [] self.comparison_operator = "after" ->
                   self.parsed_start_date = NoDate \/ record_date >= self.parsed_start_date
              [] self.comparison_operator = "before" ->
                   self.parsed_end_date = NoDate \/ record_date <= self.parsed_end_date
              [] self.comparison_operator = "equals" ->
                   self.parsed_start_date # NoDate /\ record_date = self.parsed_start_date
              [] OTHER -> TRUE

IdleDateFilter ==
    /\ df_pc = "idle"
    /\ df_self = NONE
    /\ df_data = <<>>
    /\ df_result = "None"

\* The arguments of __init__ and the record filter will be given: the date
\* patterns and comparison operators DateFilterFactory.validate accepts, and
\* an operator it does not
InitDateFilter ==
    /\ df_pc = "start"
    /\ \E date_pattern \in {"YYYYMMDD", "YYYY-MM-DD", "MM/DD/YYYY", "DD/MM/YYYY"} :
          /\ df_self \in [ date_field : {<<"COR_FILE_DATE">>},
                           start_date : {NONE, <<>>, <<"x">>,
                                         Render(date_pattern, 2025, 8, 1)},
                           end_date : {NONE, <<>>, Render(date_pattern, 2025, 8, 31)},
                           date_pattern : {date_pattern},
                           comparison_operator :
                               {"between", "after", "before", "equals", "within"},
                           parsed_start_date : {NoDate},
                           parsed_end_date : {NoDate} ]
          /\ df_data \in RecordsFor(<<"COR_FILE_DATE">>, date_pattern)
    /\ df_result = "None"

\* __init__: a start or end date that does not parse raises ValueError
DateFilterInit ==
    /\ df_pc = "start"
    /\ LET Given(date) == date # NONE /\ date # <<>>
           start == IF Given(df_self.start_date)
                    THEN ParseDate(df_self.start_date, df_self.date_pattern) ELSE NoDate
           end == IF Given(df_self.end_date)
                  THEN ParseDate(df_self.end_date, df_self.date_pattern) ELSE NoDate
       IN IF \/ Given(df_self.start_date) /\ start = NoDate
             \/ Given(df_self.end_date) /\ end = NoDate
          THEN df_pc' = "raised" /\ UNCHANGED df_self
          ELSE /\ df_pc' = "ready"
               /\ df_self' = [df_self EXCEPT !.parsed_start_date = start,
                                             !.parsed_end_date = end]
    /\ UNCHANGED <<df_data, df_result>>

\* filter(data)
DateFilterFilter ==
    /\ df_pc = "ready"
    /\ df_result' = IF Filter(df_self, df_data) THEN "True" ELSE "False"
    /\ df_pc' = "filtered"
    /\ UNCHANGED <<df_self, df_data>>

NextDateFilter == DateFilterInit \/ DateFilterFilter

(***************************************************************************)
(* Properties of run_parser, checked under Spec                            *)
(***************************************************************************)

\* C1: fail-fast. Once the processing of a resource has raised, run_parser
\* never returns normally and complete_bundle is never called in that run.
C1_FailFast ==
    failed # {} => (pc # "done" /\ complete_calls = <<>>)

C4_EmptyListFails ==
    (pc \notin {"find_bundle", "list_resources"} /\ resources = <<>>) =>
        (pc = "raised" /\ uploaded = <<>> /\ complete_calls = <<>>)

\* C5: first match wins. Every strategy is created for the first pattern, in
\* declared order, that matches the resource name, with that pattern's
\* strategy name; no earlier pattern matches the name.
C5_FirstMatchWins ==
    \A n \in 1..Len(created) :
        LET c == created[n]
        IN /\ c.pattern \in 1..Len(resource_parsers)
           /\ ReMatch(resource_parsers[c.pattern].pattern, c.name)
           /\ \A j \in 1..(c.pattern - 1) : ~ReMatch(resource_parsers[j].pattern, c.name)
           /\ c.parser_type = resource_parsers[c.pattern].parser_type

\* A strategy was created for a name that a later pattern, with another
\* strategy name, matches too
C5_Witness ==
    \E n \in 1..Len(created) :
        \E j \in 1..Len(resource_parsers) :
            /\ j > created[n].pattern
            /\ ReMatch(resource_parsers[j].pattern, created[n].name)
            /\ resource_parsers[j].parser_type # created[n].parser_type

\* C6: a resource whose name matches no pattern is fatal: the error is
\* propagated, the run does not carry on past the resource.
C6_NoParserIsFatal ==
    skipped # {} => pc = "raised"

\* The positions of the resource list whose output name was uploaded
UploadedPositions ==
    {i \in 1..Len(resources) : OutputFilename(resources[i]) \in Range(uploaded)}

\* C27: complete_bundle is called at most once per run and only after the
\* loop has attempted every resource of the list; each resource is uploaded
\* at most once; the processed_resources passed to complete_bundle are
\* exactly the output names that were uploaded, in resource-list order.
C27_CompleteOnceAfterLoop ==
    /\ Len(complete_calls) <= 1
    /\ complete_calls # <<>> => idx > Len(resources)
    /\ \A i, j \in 1..Len(uploaded) : i # j => uploaded[i] # uploaded[j]
    /\ \A i \in 1..Len(uploaded) :
          \E n \in 1..Len(resources) : uploaded[i] = OutputFilename(resources[n])
    /\ \A i, j \in 1..Len(uploaded) : \A n, m \in 1..Len(resources) :
          (i < j /\ uploaded[i] = OutputFilename(resources[n])
                 /\ uploaded[j] = OutputFilename(resources[m])) => n < m
    /\ complete_calls # <<>> => complete_calls[1] = uploaded

\* complete_bundle was called in a run of two resources of which only the
\* second was uploaded
C27_Witness ==
    /\ complete_calls # <<>>
    /\ Len(resources) = 2
    /\ UploadedPositions = {2}
    /\ complete_calls[1] = <<OutputFilename(resources[2])>>

\* C28: every temporary file run_parser creates for a resource has been
\* removed by the time run_parser finishes, on every path, the paths where
\* parse or the upload raises included.
C28_TempFilesRemoved ==
    pc \in {"done", "raised"} => temp_files = {}

(***************************************************************************)
(* Properties of the worker pool, checked under SpecPool                   *)
(***************************************************************************)
Jobs == 1..njobs

HeldJobs == {worker_job[w] : w \in {v \in Workers : worker[v] = "working"}}

RECURSIVE Flatten(_)
Flatten(chunks) ==
    IF chunks = <<>> THEN <<>> ELSE Head(chunks) \o Flatten(Tail(chunks))

AllBytes == Flatten(chunk_list)

NewlinePositions(bs) == {i \in 1..Len(bs) : bs[i] = NEWLINE}

NthNewline(bs, k) ==
    CHOOSE i \in NewlinePositions(bs) :
        Cardinality({j \in NewlinePositions(bs) : j <= i}) = k

\* The k-th piece of bs when it is split at every newline byte
Segment(bs, k) ==
    LET n == Cardinality(NewlinePositions(bs))
        from == IF k = 1 THEN 1 ELSE NthNewline(bs, k - 1) + 1
        to == IF k = n + 1 THEN Len(bs) ELSE NthNewline(bs, k) - 1
    IN SubSeq(bs, from, to)

Terminated(bs) == Cardinality(NewlinePositions(bs))

\* What a decoder that sees the whole input at once makes of a segment
Reference(seg) == IF Utf8Valid(seg) THEN DecodeStrict(seg) ELSE DecodeReplace(seg)

\* C7: the lines yielded are the stream's bytes, taken as one sequence, split
\* at each newline byte, in order; the unterminated final segment is yielded
\* once when it is not empty and nothing follows a trailing newline; no
\* chunking changes this, and a character cut by a chunk boundary is decoded
\* as the character.
C7_LinesAreSegments ==
    LET n == Terminated(AllBytes)
        last == Segment(AllBytes, n + 1)
        complete == [k \in 1..n |-> Reference(Segment(AllBytes, k))]
    IN /\ dec_pc = "reading" => (yielded = complete /\ buffer = last)
       /\ dec_pc = "done" =>
            yielded = complete \o (IF last # <<>> THEN <<Reference(last)>> ELSE <<>>)
       /\ (dec_pc = "done" /\ Utf8Valid(AllBytes)) =>
            \A k \in 1..Len(yielded) : REPLACEMENT \notin Range(yielded[k])

\* The stream ended after a chunk boundary fell inside a two-byte character,
\* and the input ends with a newline
C7_Witness ==
    /\ dec_pc = "done"
    /\ \E i \in 1..(Len(chunk_list) - 1) :
          /\ chunk_list[i] # <<>> /\ chunk_list[i + 1] # <<>>
          /\ IsLead2(chunk_list[i][Len(chunk_list[i])])
          /\ IsCont(chunk_list[i + 1][1])
    /\ \E k \in 1..Len(yielded) : 233 \in Range(yielded[k])
    /\ AllBytes[Len(AllBytes)] = NEWLINE

\* C8: a decode error is never fatal. Every segment is yielded, also the ones
\* after a segment with an invalid byte sequence and the residual one, and a
\* segment with an invalid sequence is yielded with replacement characters.
C8_DecodeErrorNotFatal ==
    LET n == Terminated(AllBytes)
        last == Segment(AllBytes, n + 1)
    IN /\ Len(yielded) = n + (IF dec_pc = "done" /\ last # <<>> THEN 1 ELSE 0)
       /\ \A k \in 1..Len(yielded) :
             ~Utf8Valid(Segment(AllBytes, k)) =>
                 /\ REPLACEMENT \in Range(yielded[k])
                 /\ Len(yielded[k]) = Len(DecodeReplace(Segment(AllBytes, k)))

\* The first segment had an invalid byte sequence; a later terminated segment
\* and the residual segment were yielded after it
C8_Witness ==
    /\ dec_pc = "done"
    /\ Len(yielded) >= 3
    /\ ~Utf8Valid(Segment(AllBytes, 1))
    /\ REPLACEMENT \in Range(yielded[1])
    /\ buffer # <<>>

(***************************************************************************)
(* Properties of CsvResourceParser.parse_stream, checked under             *)
(* SpecCsvStream                                                           *)
(***************************************************************************)

\* C9: the progress counts yielded by one parse_stream call are strictly
\* increasing.
C9_ProgressStrictlyIncreasing ==
    \A i, j \in 1..Len(progress) : i < j => progress[i] < progress[j]

\* The data rows of the input under the default configuration: the non-blank
\* lines after the header line
DataRows == NonBlank(Tail(ps_lines))

DefaultRun ==
    /\ ps_cfg.headers = NONE
    /\ ps_cfg.skip_rows = 0
    /\ ps_cfg.limit_rows = NoLimit
    /\ ps_cfg.on_error = "skip"

\* C10: when parse_stream has finished on an input of N data rows,
\* 0 < N < 1000, it has yielded the single progress value N and the emitter
\* has written N records; on an empty input it has yielded nothing and
\* written nothing.
C10_SingleFinalProgress ==
    (ps_pc = "done" /\ DefaultRun) =>
        /\ (ps_lines # <<>> /\ Len(DataRows) > 0 /\ Len(DataRows) < batch_size) =>
               (progress = <<Len(DataRows)>> /\ Len(jsonl_records) = Len(DataRows))
        /\ ps_lines = <<>> => (progress = <<>> /\ jsonl_records = <<>>)

(***************************************************************************)
(* Properties of JSONLStream, checked under SpecJsonl                      *)
(***************************************************************************)

\* Newline-terminated lines of the output: every line feed ends one
LinesAppended == Cardinality({i \in 1..Len(output_stream) : output_stream[i] = LF})

\* get_records_written
get_records_written == records_written

\* C11: after any sequence of write_record and write_records calls,
\* get_records_written equals the number of records passed in and the number
\* of newline-terminated lines appended to the output (nothing is left after
\* the last line feed); the count starts at 0 and never decreases.
C11_CountIsRecordsAndLines ==
    /\ [](js_pc = "open" =>
            /\ get_records_written = js_passed
            /\ get_records_written = LinesAppended
            /\ (output_stream # <<>> => output_stream[Len(output_stream)] = LF)
            /\ (js_calls = 0 => get_records_written = 0))
    /\ [][records_written' >= records_written]_vars

\* Both operations were used, and a record whose text holds a line feed was
\* written among others
C11_Witness ==
    /\ js_calls = MaxCalls
    /\ js_passed > js_calls
    /\ records_written >= 3
    /\ \E i \in 1..(Len(output_stream) - 1) :
          output_stream[i] = "\\" /\ output_stream[i + 1] = "n"

(***************************************************************************)
(* Properties of the strategies' parse, checked under SpecParse            *)
(***************************************************************************)

\* record[key] of a written record
DictGet(record, key) == (CHOOSE i \in 1..Len(record) : record[i].field = key)

\* The header line is taken from the file
HeaderRead == cp_self.has_header /\ cp_self.headers = NONE

\* The file line of the first row the row loop reads
FirstDataLine == (IF HeaderRead THEN 2 ELSE 1) + cp_self.skip_rows

\* The file lines the row loop has processed so far
Processed ==
    {l \in 1..Len(csvfile) :
        /\ l > Len(csvfile) - Len(cp_reader) - row_num
        /\ l <= Len(csvfile) - Len(cp_reader)}

\* The cell of column k of the record of a file line, before trimming
CellOf(line, k) ==
    FilteredRow(csvfile[line], include_indices, Len(renamed_headers))[k]

\* int(text) succeeds
Numeric(text) == ~CoerceValue(text, "int").raised

\* C12: with coerce = {field: "int"}, a numeric cell is emitted as a JSON
\* number; under on_error = "skip" a non-numeric cell is emitted with its
\* original string and its row is still emitted.
C12_CoercionKeepsRow ==
    (cp_pc # "idle" /\ cp_self.on_error = "skip") =>
        /\ dropped = {}
        /\ \A i \in 1..Len(write_stream) : \A k \in 1..Len(renamed_headers) :
              LET item == write_stream[i][DictGet(write_stream[i], renamed_headers[k])]
                  cell == CellOf(source_lines[i], k)
                  text == IF cp_self.trim_whitespace THEN Strip(cell) ELSE cell
              IN (MapHas(cp_self.coerce, renamed_headers[k]) /\ item.value # NONE) =>
                    IF Numeric(text) THEN item.value = CoerceValue(text, "int").value
                    ELSE item.value = text

\* C13: every record carries oc:source_row equal to the 1-based file line of
\* its row: the k-th row read after skipping (k from 0) gets k + skip_rows + 2
\* with a header and k + skip_rows + 1 without.
C13_SourceRowIsLineNumber ==
    cp_pc # "idle" =>
        \A i \in 1..Len(write_stream) :
            LET item == write_stream[i][DictGet(write_stream[i], <<"oc:source_row">>)]
                k == source_lines[i] - FirstDataLine
            IN /\ item.value = IntToText(source_lines[i])
               /\ item.value = IntToText(k + cp_self.skip_rows
                                           + (IF cp_self.has_header THEN 2 ELSE 1))

\* The file lines the row loop of the fixed-width parse has processed so far
FixedWidthProcessed ==
    {l \in 1..Len(lines) : l > parser_kv_args.skip_rows /\ l < line_num}

\* C14: per-record error policy, in both strategies. Under on_error = "skip" a row whose
\* processing raises is dropped, every other processed row is emitted, parse
\* does not raise and returns the number of records written; under "fail"
\* the first exception propagates and no row after it is emitted.
C14_ErrorPolicy ==
    /\ cp_pc # "idle" =>
        /\ Range(source_lines) \cap dropped = {}
        /\ Range(source_lines) \cup dropped = Processed
        /\ cp_pc = "returned" => cp_return = Len(write_stream)
        /\ cp_self.on_error = "skip" => cp_pc # "raised"
        /\ (cp_self.on_error = "fail" /\ dropped # {}) =>
              /\ cp_pc = "raised"
              /\ Cardinality(dropped) = 1
              /\ \A l \in Range(source_lines) : \A e \in dropped : l < e
    /\ fw_pc # "idle" =>
        /\ Range(fw_source_lines) \cap fw_dropped = {}
        /\ Range(fw_source_lines) \cup fw_dropped = FixedWidthProcessed
        /\ fw_pc = "returned" => fw_return = Len(fw_write_stream)
        /\ parser_kv_args.on_error = "skip" => fw_pc # "raised"
        /\ (parser_kv_args.on_error = "fail" /\ fw_dropped # {}) =>
              /\ fw_pc = "raised"
              /\ Cardinality(fw_dropped) = 1
              /\ \A l \in Range(fw_source_lines) : \A e \in fw_dropped : l < e

\* The first exception propagated after a record was written and while rows
\* were left to read
C14_Witness ==
    /\ cp_pc = "raised"
    /\ dropped # {}
    /\ write_stream # <<>>
    /\ cp_reader # <<>>

\* C15: with has_header false and no headers the call fails with a
\* configuration error under every on_error, the default "skip" included:
\* it never returns normally.
C15_ConfigErrorIsFatal ==
    (cp_pc \notin {"idle", "start"} /\ ~cp_self.has_header /\ cp_self.headers = NONE) =>
        cp_pc = "raised"

\* C16: in every emitted record a cell that, after the optional trimming,
\* equals an entry of the null_values in effect is emitted as null, and no
\* such cell is passed to coercion.
C16_NullNormalization ==
    cp_pc # "idle" =>
        /\ \A i \in 1..Len(write_stream) : \A k \in 1..Len(renamed_headers) :
              LET item == write_stream[i][DictGet(write_stream[i], renamed_headers[k])]
                  cell == CellOf(source_lines[i], k)
                  text == IF cp_self.trim_whitespace THEN Strip(cell) ELSE cell
              IN InList(text, EffectiveNullValues(cp_self.null_values)) =>
                    item.value = NONE
        /\ \A v \in coerce_calls :
              v # NONE /\ ~InList(v, EffectiveNullValues(cp_self.null_values))

\* A record with a null in a column that has a coercion, next to cells that
\* were coerced
C16_Witness ==
    /\ cp_pc = "returned"
    /\ coerce_calls # {}
    /\ \E i \in 1..Len(write_stream) : \E k \in 1..Len(renamed_headers) :
          /\ MapHas(cp_self.coerce, renamed_headers[k])
          /\ write_stream[i][DictGet(write_stream[i], renamed_headers[k])].value = NONE

\* The null_values a configuration states: the given list, the documented
\* default when none is given
ConfiguredNullValues(null_values) ==
    IF null_values = NONE THEN DefaultNullValues ELSE null_values

\* C29: a cell is emitted as null only if its (trimmed) value is an entry of
\* the configured null_values; with null_values configured as the empty list
\* no cell is turned into null and an empty cell is emitted as "".
C29_NullOnlyIfConfigured ==
    cp_pc # "idle" =>
        \A i \in 1..Len(write_stream) : \A k \in 1..Len(renamed_headers) :
            LET item == write_stream[i][DictGet(write_stream[i], renamed_headers[k])]
                cell == CellOf(source_lines[i], k)
                text == IF cp_self.trim_whitespace THEN Strip(cell) ELSE cell
            IN item.value = NONE =>
                  InList(text, ConfiguredNullValues(cp_self.null_values))

\* The header names parse starts from: the first line or the explicit headers
FileHeaders == IF HeaderRead THEN csvfile[1] ELSE cp_self.headers

\* rename.get(h, h) over a list of names
Renamed(names) == [k \in 1..Len(names) |-> MapGet(cp_self.rename, names[k], names[k])]

\* The field names of a record in emission order, without oc:source_row and
\* _schema_version
Fields(record) ==
    LET cells == SelectSeq(record, LAMBDA item :
                     item.field \notin {<<"oc:source_row">>, <<"_schema_version">>})
    IN [k \in 1..Len(cells) |-> cells[k].field]

\* Column inclusion in the order of the include list: the original statement
\* of C17
C17_IncludeOrder ==
    (cp_pc # "idle" /\ IncludeGiven(cp_self.include)) =>
        \A i \in 1..Len(write_stream) :
            Fields(write_stream[i]) =
                Renamed(SelectSeq(cp_self.include, LAMBDA h : InList(h, FileHeaders)))

\* C17: with include given, the fields of every emitted record are the header
\* names found in include, renamed, in the order of the header (the order of
\* the include list has no effect).
C17_HeaderOrder ==
    (cp_pc # "idle" /\ IncludeGiven(cp_self.include)) =>
        \A i \in 1..Len(write_stream) :
            Fields(write_stream[i]) =
                Renamed(SelectSeq(FileHeaders, LAMBDA h : InList(h, cp_self.include)))

\* A record was emitted under an include list that names two header columns
\* in the opposite order of the header
C17_Witness ==
    /\ cp_pc = "returned"
    /\ IncludeGiven(cp_self.include)
    /\ write_stream # <<>>
    /\ Len(Fields(write_stream[1])) = 2
    /\ SelectSeq(cp_self.include, LAMBDA h : InList(h, FileHeaders))
          # SelectSeq(FileHeaders, LAMBDA h : InList(h, cp_self.include))

\* C18: for every limit_rows >= 0, 0 included, the number of records emitted
\* is at most limit_rows, in the delimited and in the fixed-width strategy.
C18_RowLimit ==
    /\ (cp_pc # "idle" /\ cp_self.limit_rows >= 0) =>
          Len(write_stream) <= cp_self.limit_rows
    /\ (fw_pc # "idle" /\ parser_kv_args.limit_rows >= 0) =>
          Len(fw_write_stream) <= parser_kv_args.limit_rows

\* The record parse makes of a file line
RecordOf(line) ==
    BuildRecord(csvfile[line], renamed_headers, include_indices,
                line - FirstDataLine, cp_self).record

\* C19: under on_error = "skip" the emitted records are the records of a
\* subsequence of the input rows, in input order, no row twice.
C19_RowOrderPreserved ==
    (cp_pc # "idle" /\ cp_self.on_error = "skip") =>
        /\ \A i, j \in 1..Len(source_lines) : i < j => source_lines[i] < source_lines[j]
        /\ Len(source_lines) = Len(write_stream)
        /\ \A i \in 1..Len(write_stream) :
              /\ source_lines[i] \in FirstDataLine..Len(csvfile)
              /\ write_stream[i] = RecordOf(source_lines[i])

\* A row was dropped between two rows that were emitted
C19_Witness ==
    /\ cp_pc = "returned"
    /\ cp_self.on_error = "skip"
    /\ \E i, j \in 1..Len(source_lines) : \E d \in dropped :
          /\ source_lines[i] < d
          /\ d < source_lines[j]
          /\ write_stream[i] # write_stream[j]

LineText(n) == RStripNewline(lines[n])

\* The trimmed text at the 1-based positions start .. start+length-1 of a
\* line, cut at the line end; None when it is empty
ExpectedField(line, start, length) ==
    LET last == IF start + length - 1 < Len(line) THEN start + length - 1 ELSE Len(line)
        sub == IF start <= Len(line) THEN SubSeq(line, start, last) ELSE <<>>
    IN IF Strip(sub) = <<>> THEN NONE ELSE Strip(sub)

\* Every field spec has its three keys
WellFormed(field_specs) ==
    \A k \in 1..Len(field_specs) : {"name", "start", "length"} \subseteq DOMAIN field_specs[k]

\* C21: for every line and every field spec {name, start >= 1, length >= 1}
\* the record's value for name is the trimmed substring at the 1-based
\* positions start .. start+length-1, cut at the line end, or null when that
\* is empty or blank or start lies beyond the line end; extraction never
\* raises for an out-of-range offset.
C21_FixedWidthExtraction ==
    fw_pc # "idle" =>
        LET field_specs == FieldSpecs(parser_kv_args)
        IN /\ WellFormed(field_specs) => fw_dropped = {}
           /\ \A i \in 1..Len(fw_write_stream) : \A k \in 1..Len(field_specs) :
                 LET spec == field_specs[k]
                     item == fw_write_stream[i][DictGet(fw_write_stream[i], spec.name)]
                 IN (spec.start >= 1 /\ spec.length >= 1) =>
                       item.value = ExpectedField(LineText(fw_source_lines[i]),
                                                  spec.start, spec.length)

\* A record with a field cut at the line end and trimmed, and a field that
\* starts beyond the line end
C21_Witness ==
    /\ fw_pc = "returned"
    /\ \E i \in 1..Len(fw_write_stream) :
          LET field_specs == FieldSpecs(parser_kv_args)
              line == LineText(fw_source_lines[i])
          IN \E k1, k2 \in 1..Len(field_specs) :
                /\ field_specs[k1].start <= Len(line)
                /\ field_specs[k1].start + field_specs[k1].length - 1 > Len(line)
                /\ line[field_specs[k1].start] = " "
                /\ fw_write_stream[i][DictGet(fw_write_stream[i],
                                              field_specs[k1].name)].value # NONE
                /\ field_specs[k2].start > Len(line)
                /\ Len(line) > 0
                /\ fw_write_stream[i][DictGet(fw_write_stream[i],
                                              field_specs[k2].name)].value = NONE

\* The 1-based line numbers lo..hi, in order
LineNumbers(lo, hi) == [i \in 1..(IF hi >= lo THEN hi - lo + 1 ELSE 0) |-> lo + i - 1]

\* The last line of the window [skip_rows, skip_rows + limit_rows) of a file
\* of total lines, the last line of the file when no limit is set
WindowEnd(skip_rows, limit_rows, total) ==
    IF limit_rows = NoLimit \/ skip_rows + limit_rows > total
    THEN total ELSE skip_rows + limit_rows

\* The records of a finished parse are those of the lines lo..hi, in order,
\* each carrying its line number as oc:source_row
EmittedLines(lo, hi) ==
    /\ fw_source_lines = LineNumbers(lo, hi)
    /\ Len(fw_write_stream) = Len(fw_source_lines)
    /\ \A i \in 1..Len(fw_write_stream) :
          LET record == fw_write_stream[i]
          IN record[DictGet(record, <<"oc:source_row">>)].value = IntToText(lo + i - 1)

\* C22: with skip_rows = s and limit_rows = l on an input of T lines the
\* emitted records correspond exactly to the lines s+1 .. min(s+l, T) (to T
\* when no limit is set), in order, and each record's oc:source_row is the
\* 1-based number of its line.
C22_RowWindow ==
    (fw_pc = "returned" /\ WellFormed(FieldSpecs(parser_kv_args))) =>
        EmittedLines(parser_kv_args.skip_rows + 1,
                     WindowEnd(parser_kv_args.skip_rows, parser_kv_args.limit_rows,
                               Len(lines)))

\* C23: field_specs is required: when it is absent or an empty list the parse
\* fails with a configuration error and no record is emitted for the
\* resource.
C23_FieldSpecsRequired ==
    (fw_pc # "idle" /\ parser_kv_args.field_specs \in {NONE, <<>>}) =>
        /\ fw_pc # "returned"
        /\ fw_write_stream = <<>>

\* record.get(key, ""): the value of a field of a record, "" when absent
RecordGet(record, key) ==
    IF \E i \in 1..Len(record) : record[i].field = key
    THEN record[DictGet(record, key)].value ELSE <<>>

\* The identifier of a company number under a jurisdiction code
OcidOf(jurisdiction_code, company_number) ==
    <<"ocid:v1:co:", "sha256[:16]">> \o jurisdiction_code \o <<"|">> \o company_number

\* The identifier a record must carry when its company number is read from
\* a field
OcidFrom(record, field) ==
    LET company_number == RecordGet(record, field)
    IN IF company_number \in {NONE, <<>>}
       THEN <<"ocid:v1:co:unknown">>
       ELSE OcidOf(MapGet(parser_kv_args.ocid_generator, "jurisdiction_code",
                          <<"u", "s", "_", "f", "l">>),
                   company_number)

\* C24: when ocid_generator is configured every emitted record carries
\* oc:ocid; it is ocid:v1:co:unknown exactly when the company-number field is
\* empty, the field being the configured company_number_field or, when none
\* is configured, the first field of field_specs; otherwise it is the
\* identifier determined by (jurisdiction_code, company number) alone.
C24_OcidOfFirstField ==
    (fw_pc # "idle" /\ parser_kv_args.ocid_generator # {}
        /\ FieldSpecs(parser_kv_args) # <<>>) =>
        \A i \in 1..Len(fw_write_stream) :
            LET record == fw_write_stream[i]
                field == MapGet(parser_kv_args.ocid_generator, "company_number_field",
                                FieldSpecs(parser_kv_args)[1].name)
            IN RecordGet(record, <<"oc:ocid">>) = OcidFrom(record, field)

(***************************************************************************)
(* Properties of the parser factories, checked under SpecFactory           *)
(***************************************************************************)
\* C25: for each registered strategy name, create with params that pass
\* validate returns a ready-to-use instance and does not raise: the class
\* accepts every option the factory passes and implements parse and
\* parse_stream.
C25_CreateReturnsInstance ==
    /\ fa_pc # "raised"
    /\ fa_pc = "created" =>
          /\ fa_instance # NoInstance
          /\ CreateKeywords(fa_name) \subseteq ClassFields(fa_name)
          /\ AbstractMethods \subseteq ClassMethods(fa_name)

(***************************************************************************)
(* Properties of DateFilterStrategy, checked under SpecDateFilter           *)
(***************************************************************************)
\* A start or end date is configured
Configured(date) == date # NONE /\ date # <<>>

\* The date of the record given to filter, NoDate when the date field is
\* missing, None, empty or does not parse
RecordDate ==
    LET held == {i \in 1..Len(df_data) : df_data[i].field = df_self.date_field}
    IN IF held = {} THEN NoDate
       ELSE LET value == df_data[CHOOSE i \in held : TRUE].value
            IN IF Configured(value) THEN ParseDate(value, df_self.date_pattern)
               ELSE NoDate

\* C26: filter returns False for every record whose date field is missing,
\* empty or unparsable, under every comparison operator; with "between" it
\* returns True exactly when the record's date parses and lies within
\* [start_date, end_date] inclusive, each bound applying only when configured.
C26_DateFilter ==
    df_pc = "filtered" =>
        /\ RecordDate = NoDate => df_result = "False"
        /\ df_self.comparison_operator = "between" =>
              (df_result = "True" <=>
                  /\ RecordDate # NoDate
                  /\ Configured(df_self.start_date) =>
                        RecordDate >= ParseDate(df_self.start_date, df_self.date_pattern)
                  /\ Configured(df_self.end_date) =>
                        RecordDate <= ParseDate(df_self.end_date, df_self.date_pattern))

\* A record dated on the configured end date passed a "between" filter with
\* both bounds
C26_Witness ==
    /\ df_pc = "filtered"
    /\ df_self.comparison_operator = "between"
    /\ Configured(df_self.start_date)
    /\ Configured(df_self.end_date)
    /\ RecordDate = ParseDate(df_self.end_date, df_self.date_pattern)
    /\ df_result = "True"

(***************************************************************************)
(* Properties of parse and parse_stream together, checked under            *)
(* SpecCsvBoth                                                             *)
(***************************************************************************)
\* C30: for the same input text and the same configuration parse and
\* parse_stream emit the same sequence of records: the same rows, field
\* names, values and markers.
C30_SameRecords ==
    (cp_pc = "returned" /\ ps_pc = "done") => jsonl_records = write_stream

(***************************************************************************)
(* Specifications                                                          *)
(***************************************************************************)
Init ==
    /\ InitRun /\ IdleDecode /\ IdleCsvStream /\ IdlePool /\ IdleJsonl /\ IdleCsvParse /\ IdleFixedWidth
    /\ IdleFactory /\ IdleDateFilter

Next == NextRun /\ UNCHANGED <<dec_vars, ps_vars, pool_vars, js_vars, cp_vars, fw_vars, fa_vars, df_vars>>

Spec == Init /\ [][Next]_vars

InitDecodeSpec ==
    /\ IdleRun /\ InitDecode /\ IdleCsvStream /\ IdlePool /\ IdleJsonl /\ IdleCsvParse /\ IdleFixedWidth
    /\ IdleFactory /\ IdleDateFilter

NextDecodeSpec ==
    NextDecode /\ UNCHANGED <<run_vars, ps_vars, pool_vars, js_vars, cp_vars, fw_vars, fa_vars, df_vars>>

SpecDecode == InitDecodeSpec /\ [][NextDecodeSpec]_vars

InitCsvStreamSpec ==
    /\ IdleRun /\ IdleDecode /\ InitCsvStream /\ IdlePool /\ IdleJsonl /\ IdleCsvParse /\ IdleFixedWidth
    /\ IdleFactory /\ IdleDateFilter

NextCsvStreamSpec ==
    NextCsvStream /\ UNCHANGED <<run_vars, dec_vars, pool_vars, js_vars, cp_vars, fw_vars, fa_vars, df_vars>>

SpecCsvStream == InitCsvStreamSpec /\ [][NextCsvStreamSpec]_vars

InitPoolSpec ==
    /\ IdleRun /\ IdleDecode /\ IdleCsvStream /\ InitPool /\ IdleJsonl /\ IdleCsvParse /\ IdleFixedWidth
    /\ IdleFactory /\ IdleDateFilter

NextPoolSpec ==
    NextPool /\ UNCHANGED <<run_vars, dec_vars, ps_vars, js_vars, cp_vars, fw_vars, fa_vars, df_vars>>

SpecPool == InitPoolSpec /\ [][NextPoolSpec]_vars

InitJsonlSpec ==
    /\ IdleRun /\ IdleDecode /\ IdleCsvStream /\ IdlePool /\ InitJsonl /\ IdleCsvParse /\ IdleFixedWidth
    /\ IdleFactory /\ IdleDateFilter

NextJsonlSpec ==
    NextJsonl /\ UNCHANGED <<run_vars, dec_vars, ps_vars, pool_vars, cp_vars, fw_vars, fa_vars, df_vars>>

SpecJsonl == InitJsonlSpec /\ [][NextJsonlSpec]_vars

\* One run of either strategy's parse
InitParseSpec ==
    /\ IdleRun /\ IdleDecode /\ IdleCsvStream /\ IdlePool /\ IdleJsonl
    /\ \/ InitCsvParse /\ IdleFixedWidth
       \/ IdleCsvParse /\ InitFixedWidth
    /\ IdleFactory /\ IdleDateFilter

NextParseSpec ==
    /\ \/ NextCsvParse /\ UNCHANGED fw_vars
       \/ NextFixedWidth /\ UNCHANGED cp_vars
    /\ UNCHANGED <<run_vars, dec_vars, ps_vars, pool_vars, js_vars, fa_vars, df_vars>>

SpecParse == InitParseSpec /\ [][NextParseSpec]_vars

InitFixedWidthSpec ==
    /\ IdleRun /\ IdleDecode /\ IdleCsvStream /\ IdlePool /\ IdleJsonl /\ IdleCsvParse
    /\ InitFixedWidthAll
    /\ IdleFactory /\ IdleDateFilter

NextFixedWidthSpec ==
    NextFixedWidth
    /\ UNCHANGED <<run_vars, dec_vars, ps_vars, pool_vars, js_vars, cp_vars, fa_vars,
                   df_vars>>

SpecFixedWidth == InitFixedWidthSpec /\ [][NextFixedWidthSpec]_vars

InitFactorySpec ==
    /\ IdleRun /\ IdleDecode /\ IdleCsvStream /\ IdlePool /\ IdleJsonl /\ IdleCsvParse
    /\ IdleFixedWidth /\ InitFactory /\ IdleDateFilter

NextFactorySpec ==
    NextFactory
    /\ UNCHANGED <<run_vars, dec_vars, ps_vars, pool_vars, js_vars, cp_vars, fw_vars,
                   df_vars>>

SpecFactory == InitFactorySpec /\ [][NextFactorySpec]_vars

InitDateFilterSpec ==
    /\ IdleRun /\ IdleDecode /\ IdleCsvStream /\ IdlePool /\ IdleJsonl /\ IdleCsvParse
    /\ IdleFixedWidth /\ IdleFactory /\ InitDateFilter

NextDateFilterSpec ==
    NextDateFilter
    /\ UNCHANGED <<run_vars, dec_vars, ps_vars, pool_vars, js_vars, cp_vars, fw_vars,
                   fa_vars>>

SpecDateFilter == InitDateFilterSpec /\ [][NextDateFilterSpec]_vars

InitCsvBothSpec ==
    /\ IdleRun /\ IdleDecode /\ IdlePool /\ IdleJsonl /\ IdleFixedWidth
    /\ IdleFactory /\ IdleDateFilter /\ InitCsvBoth

NextCsvBothSpec ==
    NextCsvBoth
    /\ UNCHANGED <<run_vars, dec_vars, pool_vars, js_vars, fw_vars, fa_vars, df_vars>>

SpecCsvBoth == InitCsvBothSpec /\ [][NextCsvBothSpec]_vars

====
